---- MODULE Spec2Model ----
(***************************************************************************)
(* Day 10 joltage solver of aoc2025: exact fractions, the dense matrix and *)
(* its reduced row-echelon form, the pivot / free-variable analysis, the   *)
(* bounded search over the free variables and the part2 batch driver.      *)
(*                                                                         *)
(* Part 1's breadth-first search over indicator patterns, the parser and   *)
(* the CartesianProductIterator are modelled beside them, and so are day   *)
(* 8's part2, day 1's Dial and the PairsIterator and LinesIterator of      *)
(* aoc-utils.                                                              *)
(*                                                                         *)
(* The specifications sharing the module:                                  *)
(*   SpecFrac  the Fraction operations applied to operands drawn from a    *)
(*             bounded set;                                                *)
(*   SpecMul   Fraction's Mul on operands drawn from the whole range of    *)
(*             the numerator and denominator fields;                       *)
(*   SpecRref  Matrix::reduced_row_echelon_form, one outer-loop iteration  *)
(*             per step, on matrices drawn from a bounded set;             *)
(*   Spec      part2 running find_min_clicks_to_setup_joltage over a list  *)
(*             of machines;                                                *)
(*   SpecCartesian  a CartesianProductIterator driven by next();           *)
(*   SpecPart1 part1 running find_min_clicks_to_switch_on over a list of   *)
(*             machines;                                                   *)
(*   SpecPart1Live  SpecPart1 with a started search running on;            *)
(*   SpecExample  parse, part1 and part2 on the example of example_tests;  *)
(*   SpecParse  a line written from a bit count, button wirings and        *)
(*             joltages, parsed by from_str;                               *)
(*   SpecDay8  day 8's part2_small on a list of points;                    *)
(*   SpecDial  day 1's Dial under rotate and rotate_counting_zeroes;       *)
(*   SpecPairs, SpecLines  a PairsIterator, a LinesIterator driven by      *)
(*             next().                                                     *)
(***************************************************************************)
EXTENDS Integers, Sequences, FiniteSets, TLC

VARIABLES
    \* SpecFrac: the operands, the operation applied and its result
    fa, fb, fop, fres, feq, fint, ffail,
    \* SpecRref: the matrix as given, the matrix being reduced, the loop state
    mat0, mat, lead, row, rpc, rfail,
    \* Spec: part2's position in its input, the machine being solved, the
    \* solver's locals, and what the machine / the batch ended with
    pending, total, machine, pc, x, free_vars, iter, solution, valid,
    best_sum, best_solution, outcome, batch,
    \* SpecCartesian: the iterator, the items next() has yielded so far and
    \* the number of calls that returned None (yielded and nones serve
    \* SpecPairs and SpecLines as well)
    cit, yielded, nones,
    \* SpecPart1: part1's position in its input, the machine being searched,
    \* the search's queue and visited table, and what the call / part1 ended
    \* with
    p1pending, p1total, p1machine, p1pc, queue, visited, p1outcome, p1batch,
    \* the entries pop_front has returned in the call in progress, in order
    popped,
    \* SpecExample: the parsed input, a list of machines
    input,
    \* SpecParse: the lists a line is written from, the line handed to the
    \* parser and how parsing it ended
    written, line, parsed,
    \* SpecDay8: part2's points, its heap of pairs, its union-find forest,
    \* its result and its position
    nodes, pairs, forest, result, d8pc,
    \* SpecDial: the dial, and the last rotation with the dial it was applied
    \* to, the dial rotate gives for it and the zeroes counted
    dial, rotation, before, rotated, zeroes,
    \* SpecPairs, SpecLines: the iterators of aoc-utils (their items go to
    \* yielded and nones)
    pit, lit

fracVars == <<fa, fb, fop, fres, feq, fint, ffail>>
rrefVars == <<mat0, mat, lead, row, rpc, rfail>>
solverVars == <<pending, total, machine, pc, x, free_vars, iter, solution,
                valid, best_sum, best_solution, outcome, batch>>
cpiVars == <<cit, yielded, nones>>
switchVars == <<p1pending, p1total, p1machine, p1pc, queue, visited,
                p1outcome, p1batch, popped>>
parseVars == <<written, line, parsed>>
day8Vars == <<nodes, pairs, forest, result, d8pc>>
dialVars == <<dial, rotation, before, rotated, zeroes>>
utilVars == <<pit, lit>>
restVars == <<parseVars, day8Vars, dialVars, utilVars>>
vars == <<fracVars, rrefVars, solverVars, cpiVars, switchVars, input,
          restVars>>

----------------------------------------------------------------------------
(* Bounds of the model *)

\* SpecFrac operands: numerators in -MaxNum..MaxNum, denominators 1..MaxDen
MaxNum == 7
MaxDen == 8

----------------------------------------------------------------------------
(* Integer helpers: Rust's abs, signum and truncating division *)

Abs(n) == IF n < 0 THEN -n ELSE n

signum(n) == IF n > 0 THEN 1 ELSE IF n < 0 THEN -1 ELSE 0

RECURSIVE Pow2(_)
Pow2(n) == IF n = 0 THEN 1 ELSE 2 * Pow2(n - 1)

\* `/` on i32 rounds toward zero
TruncDiv(a, b) ==
    IF (a >= 0) = (b > 0) THEN Abs(a) \div Abs(b) ELSE -(Abs(a) \div Abs(b))

\* NumberExt::greatest_common_divisor on unsigned operands: Euclid's loop
RECURSIVE greatest_common_divisor(_, _)
greatest_common_divisor(a, b) ==
    IF b = 0 THEN a ELSE greatest_common_divisor(b, a % b)

least_common_multiple(a, b) == (a * b) \div greatest_common_divisor(a, b)

----------------------------------------------------------------------------
(* Fraction *)

Fraction(n, d) == [numerator |-> n, denominator |-> d]

FractionDefault == Fraction(0, 1)
FractionZero == Fraction(0, 1)
FractionOne == Fraction(1, 1)
FractionFromInt(v) == Fraction(v, 1)

\* simplify with abs() applied to the stored numerator, not only to the
\* gcd's argument
SimplifyAbsNumerator(f) ==
    LET gcd == greatest_common_divisor(Abs(f.numerator), f.denominator)
    IN  Fraction(Abs(f.numerator) \div gcd, f.denominator \div gcd)
simplify(f) ==
    LET gcd == greatest_common_divisor(Abs(f.numerator), f.denominator)
    IN  Fraction(TruncDiv(f.numerator, gcd), f.denominator \div gcd)

\* intify that divides instead of testing the denominator
IntifyTruncating(f) ==
    [ok |-> TRUE, value |-> TruncDiv(f.numerator, f.denominator)]
\* Ok(numerator) or Err(self)
intify(f) ==
    IF f.denominator = 1
    THEN [ok |-> TRUE, value |-> f.numerator]
    ELSE [ok |-> FALSE, value |-> f]

\* eq with the operands compared as stored
EqAsStored(a, b) ==
    a.numerator = b.numerator /\ a.denominator = b.denominator
eq(a, b) ==
    LET sa == simplify(a)
        sb == simplify(b)
    IN  sa.numerator = sb.numerator /\ sa.denominator = sb.denominator

\* div_assign without line 351: the sign of other's numerator is dropped
DivAssignNoSign(self, other) ==
    Fraction(self.numerator * other.denominator,
             self.denominator * Abs(other.numerator))
div_assign(self, other) ==
    Fraction(self.numerator * other.denominator * signum(other.numerator),
             self.denominator * Abs(other.numerator))

\* mul with line 363 taking self's denominator alone
MulKeepsDenominator(self, other) ==
    IF self.numerator = 0 \/ other.numerator = 0
    THEN Fraction(0, 1)
    ELSE LET n == self.numerator * other.numerator
             d == self.denominator
             gcd == greatest_common_divisor(Abs(n), d)
         IN  simplify(Fraction(TruncDiv(n, gcd), d \div gcd))
mul(self, other) ==
    IF self.numerator = 0 \/ other.numerator = 0
    THEN Fraction(0, 1)
    ELSE LET n == self.numerator * other.numerator
             d == self.denominator * other.denominator
             gcd == greatest_common_divisor(Abs(n), d)
         IN  simplify(Fraction(TruncDiv(n, gcd), d \div gcd))

\* sub_assign with the result reduced before it is stored
SubAssignReduced(self, other) ==
    LET o == simplify(other)
        lcm == least_common_multiple(self.denominator, o.denominator)
    IN  simplify(Fraction(
            TruncDiv(self.numerator * lcm, self.denominator)
              - TruncDiv(o.numerator * lcm, o.denominator), lcm))
sub_assign(self, other) ==
    LET o == simplify(other)
        lcm == least_common_multiple(self.denominator, o.denominator)
        num == TruncDiv(self.numerator * lcm, self.denominator)
                 - TruncDiv(o.numerator * lcm, o.denominator)
    IN  Fraction(num, lcm)

----------------------------------------------------------------------------
(* SpecFrac: one Fraction operation applied to drawn operands *)

\* no integer extracted yet
NoInt == [ok |-> FALSE, value |-> FractionDefault]

Fractions(maxNum, maxDen) ==
    { Fraction(n, d) : n \in (-maxNum)..maxNum, d \in 1..maxDen }

FracIdle ==
    /\ fa = FractionDefault /\ fb = FractionDefault
    /\ fop = "idle" /\ fres = FractionDefault /\ feq = FALSE
    /\ fint = NoInt /\ ffail = "none"

FracInit ==
    /\ fa \in Fractions(MaxNum, MaxDen) /\ fb \in Fractions(MaxNum, MaxDen)
    /\ fop = "new" /\ fres = FractionDefault /\ feq = FALSE
    /\ fint = NoInt /\ ffail = "none"

FracSimplify ==
    /\ fop = "new"
    /\ fop' = "simplify"
    /\ fres' = simplify(fa)
    /\ UNCHANGED <<fa, fb, feq, fint, ffail>>
    /\ UNCHANGED <<rrefVars, solverVars, cpiVars, switchVars, input, restVars>>

FracEq ==
    /\ fop = "new"
    /\ fop' = "eq"
    /\ feq' = eq(fa, fb)
    /\ UNCHANGED <<fa, fb, fres, fint, ffail>>
    /\ UNCHANGED <<rrefVars, solverVars, cpiVars, switchVars, input, restVars>>

FracSubAssign ==
    /\ fop = "new"
    /\ fop' = "sub_assign"
    /\ fres' = sub_assign(fa, fb)
    /\ UNCHANGED <<fa, fb, feq, fint, ffail>>
    /\ UNCHANGED <<rrefVars, solverVars, cpiVars, switchVars, input, restVars>>

\* a /= b; a zero numerator of b would leave a zero denominator
FracDivAssign ==
    /\ fop = "new"
    /\ fb.numerator # 0
    /\ fop' = "div_assign"
    /\ fres' = div_assign(fa, fb)
    /\ UNCHANGED <<fa, fb, feq, fint, ffail>>
    /\ UNCHANGED <<rrefVars, solverVars, cpiVars, switchVars, input, restVars>>

\* c = a * b; c /= a; c == b
FracMulDiv ==
    /\ fop = "new"
    /\ fa.numerator # 0 /\ fb.numerator # 0
    /\ fop' = "mul_div"
    /\ LET c == div_assign(mul(fa, fb), fa)
       IN  fres' = c /\ feq' = eq(c, fb)
    /\ UNCHANGED <<fa, fb, fint, ffail>>
    /\ UNCHANGED <<rrefVars, solverVars, cpiVars, switchVars, input, restVars>>

\* a.intify() on the fraction as stored
FracIntify ==
    /\ fop = "new"
    /\ fop' = "intify"
    /\ fint' = intify(fa)
    /\ UNCHANGED <<fa, fb, fres, feq, ffail>>
    /\ UNCHANGED <<rrefVars, solverVars, cpiVars, switchVars, input, restVars>>

\* a.simplify().intify(), the form of lines 502 and 538
FracSimplifyIntify ==
    /\ fop = "new"
    /\ fop' = "simplify_intify"
    /\ fres' = simplify(fa)
    /\ fint' = intify(simplify(fa))
    /\ UNCHANGED <<fa, fb, feq, ffail>>
    /\ UNCHANGED <<rrefVars, solverVars, cpiVars, switchVars, input, restVars>>

FracNext ==
    \/ FracSimplify
    \/ FracEq
    \/ FracSubAssign
    \/ FracDivAssign
    \/ FracMulDiv
    \/ FracIntify
    \/ FracSimplifyIntify

----------------------------------------------------------------------------
(* SpecMul: Mul at the limits of the fields.  The numerator is a signed and *)
(* the denominator an unsigned integer of FieldBits bits, the product is    *)
(* formed in twice that width (i64 / u64 for the i32 / u32 of the source)   *)
(* and narrowed back by try_into().unwrap().  FieldBits stands for 32: the  *)
(* operands range over the whole of both fields, so the width is kept small *)
(* enough to enumerate them.  abs() of the least numerator overflows: it    *)
(* panics when the build checks overflow and wraps to itself otherwise, and *)
(* both builds are modelled.                                                *)

FieldBits == 4

FieldMin == -Pow2(FieldBits - 1)
FieldMax == Pow2(FieldBits - 1) - 1
UFieldMax == Pow2(FieldBits) - 1

Done(f) == [fail |-> "none", value |-> f]
Failed(msg) == [fail |-> msg, value |-> FractionDefault]

\* simplify with the overflow of abs() and the narrowing of the gcd
SimplifyChecked(f, overflow_checks) ==
    IF f.numerator = FieldMin /\ overflow_checks
    THEN Failed("attempt to negate with overflow")
    ELSE LET gcd == greatest_common_divisor(Abs(f.numerator), f.denominator)
         IN  IF gcd > FieldMax
             THEN Failed("unwrap on Err(TryFromIntError)")
             ELSE Done(Fraction(TruncDiv(f.numerator, gcd),
                                f.denominator \div gcd))

\* Mul::mul with the narrowing conversions of both fields
mul_checked(self, other, overflow_checks) ==
    IF self.numerator = 0 \/ other.numerator = 0
    THEN Done(Fraction(0, 1))
    ELSE LET numerator == self.numerator * other.numerator
             denominator == self.denominator * other.denominator
             gcd == greatest_common_divisor(Abs(numerator), denominator)
             n == TruncDiv(numerator, gcd)
             d == denominator \div gcd
         IN  IF n < FieldMin \/ n > FieldMax
             THEN Failed("unwrap on Err(TryFromIntError)")
             ELSE IF d > UFieldMax
             THEN Failed("unwrap on Err(TryFromIntError)")
             ELSE SimplifyChecked(Fraction(n, d), overflow_checks)

\* every fraction the two fields can hold, the denominator non-zero
FieldFractions(bits) ==
    { Fraction(n, d) : n \in (-Pow2(bits - 1))..(Pow2(bits - 1) - 1),
                       d \in 1..(Pow2(bits) - 1) }

MulInit ==
    /\ fa \in FieldFractions(FieldBits) /\ fb \in FieldFractions(FieldBits)
    /\ fop = "new" /\ fres = FractionDefault /\ feq = FALSE
    /\ fint = NoInt /\ ffail = "none"

\* a * b in a build with or without overflow checks
FracMul ==
    /\ fop = "new"
    /\ \E overflow_checks \in BOOLEAN :
         LET r == mul_checked(fa, fb, overflow_checks)
         IN  /\ fres' = r.value
             /\ ffail' = r.fail
    /\ fop' = "mul"
    /\ UNCHANGED <<fa, fb, feq, fint>>
    /\ UNCHANGED <<rrefVars, solverVars, cpiVars, switchVars, input, restVars>>

MulNext == FracMul

----------------------------------------------------------------------------
(* Matrix<Fraction>: rows, cols and the row-major backing store `data`     *)
(* (a sequence, so element (row, col) is data[row * cols + col + 1])       *)

Matrix(rows, cols, data) == [rows |-> rows, cols |-> cols, data |-> data]

\* Matrix::new with one column too many in the backing store
MatrixNewWide(rows, cols) ==
    Matrix(rows, cols, [k \in 1..(rows * (cols + 1)) |-> FractionDefault])
\* Matrix::new: rows * cols copies of T::default()
MatrixNew(rows, cols) ==
    Matrix(rows, cols, [k \in 1..(rows * cols) |-> FractionDefault])

\* the flat index get and set compute, and whether indexing `data` with it
\* panics
FlatIndex(m, r, c) == r * m.cols + c
IndexPanics(m, r, c) == FlatIndex(m, r, c) >= Len(m.data)

get(m, r, c) == m.data[FlatIndex(m, r, c) + 1]

set(m, r, c, value) ==
    [m EXCEPT !.data = [m.data EXCEPT ![FlatIndex(m, r, c) + 1] = value]]

\* swap_row that leaves the rows where they are
SwapRowNone(m, row_a, row_b) == m
swap_row(m, row_a, row_b) ==
    IF row_a = row_b THEN m
    ELSE LET row1 == IF row_a < row_b THEN row_a ELSE row_b
             row2 == IF row_a < row_b THEN row_b ELSE row_a
             row1_start == row1 * m.cols
             row2_start == row2 * m.cols
         IN  [m EXCEPT !.data =
               [k \in 1..Len(m.data) |->
                  IF k > row1_start /\ k <= row1_start + m.cols
                  THEN m.data[k - row1_start + row2_start]
                  ELSE IF k > row2_start /\ k <= row2_start + m.cols
                  THEN m.data[k - row2_start + row1_start]
                  ELSE m.data[k]]]

\* divide_row whose range stops one short of the row's end: the last column
\* is left undivided
DivideRowButLast(m, r, divisor) ==
    LET row_start == r * m.cols
        row_end == (r + 1) * m.cols - 1
    IN  [m EXCEPT !.data =
          [k \in 1..Len(m.data) |->
             IF k > row_start /\ k <= row_end
             THEN div_assign(m.data[k], divisor)
             ELSE m.data[k]]]
divide_row(m, r, divisor) ==
    LET row_start == r * m.cols
        row_end == (r + 1) * m.cols
    IN  [m EXCEPT !.data =
          [k \in 1..Len(m.data) |->
             IF k > row_start /\ k <= row_end
             THEN div_assign(m.data[k], divisor)
             ELSE m.data[k]]]

\* row1 -= row2 * by, element by element
subtract_from_row(m, row1, row2, by) ==
    LET row1_start == row1 * m.cols
        row2_start == row2 * m.cols
    IN  [m EXCEPT !.data =
          [k \in 1..Len(m.data) |->
             IF k > row1_start /\ k <= row1_start + m.cols
             THEN sub_assign(m.data[k],
                             mul(m.data[k - row1_start + row2_start], by))
             ELSE m.data[k]]]

\* the first column of `r` whose entry differs from T::zero(), or None
find_pivot_column(m, r) ==
    LET hits == { c \in 0..(m.cols - 1) : ~eq(get(m, r, c), FractionZero) }
    IN  IF hits = {}
        THEN [some |-> FALSE, col |-> 0]
        ELSE [some |-> TRUE,
              col |-> CHOOSE c \in hits : \A d \in hits : c <= d]

----------------------------------------------------------------------------
(* Matrix::reduced_row_echelon_form *)

\* The inner `while self.get(i, lead) == T::default()` of the iteration for
\* row r: the row i and column ld it stops at, whether it ended in the
\* `return` (ld reached cols), and a panic of an out-of-range get.
RECURSIVE PivotSearch(_, _, _, _)
\* PivotSearch where i runs past the last row instead of wrapping
RECURSIVE PivotSearchNoWrap(_, _, _, _)
PivotSearchNoWrap(m, r, i, ld) ==
    IF IndexPanics(m, i, ld)
    THEN [i |-> i, lead |-> ld, returned |-> FALSE,
          fail |-> "index out of bounds"]
    ELSE IF ~eq(get(m, i, ld), FractionDefault)
    THEN [i |-> i, lead |-> ld, returned |-> FALSE, fail |-> "none"]
    ELSE PivotSearchNoWrap(m, r, i + 1, ld)
PivotSearch(m, r, i, ld) ==
    IF IndexPanics(m, i, ld)
    THEN [i |-> i, lead |-> ld, returned |-> FALSE,
          fail |-> "index out of bounds"]
    ELSE IF ~eq(get(m, i, ld), FractionDefault)
    THEN [i |-> i, lead |-> ld, returned |-> FALSE, fail |-> "none"]
    ELSE IF i + 1 = m.rows
    THEN IF ld + 1 = m.cols
         THEN [i |-> r, lead |-> ld + 1, returned |-> TRUE, fail |-> "none"]
         ELSE PivotSearch(m, r, r, ld + 1)
    ELSE PivotSearch(m, r, i + 1, ld)

\* the (row, col) pairs the inner `while` of lines 235-244 passes to get,
\* from (i, ld) on
RECURSIVE PivotSearchAccesses(_, _, _, _)
PivotSearchAccesses(m, r, i, ld) ==
    IF IndexPanics(m, i, ld) THEN {<<i, ld>>}
    ELSE IF ~eq(get(m, i, ld), FractionDefault) THEN {<<i, ld>>}
    ELSE IF i + 1 = m.rows
    THEN IF ld + 1 = m.cols THEN {<<i, ld>>}
         ELSE {<<i, ld>>} \cup PivotSearchAccesses(m, r, r, ld + 1)
    ELSE {<<i, ld>>} \cup PivotSearchAccesses(m, r, i + 1, ld)

\* `for j in 0..rows { if j != row { subtract_from_row(j, row, get(j, lead)) } }`
RECURSIVE Eliminate(_, _, _, _)
\* Eliminate where only the rows below the pivot row are cleared
RECURSIVE EliminateBelow(_, _, _, _)
EliminateBelow(m, r, ld, j) ==
    IF j >= m.rows THEN m
    ELSE IF j > r
    THEN EliminateBelow(subtract_from_row(m, j, r, get(m, j, ld)), r, ld, j + 1)
    ELSE EliminateBelow(m, r, ld, j + 1)
Eliminate(m, r, ld, j) ==
    IF j >= m.rows THEN m
    ELSE IF j # r
    THEN Eliminate(subtract_from_row(m, j, r, get(m, j, ld)), r, ld, j + 1)
    ELSE Eliminate(m, r, ld, j + 1)

\* One pass of `for row in 0..self.rows` (the body for row r with the cursor
\* at ld), or the end of the loop: the matrix, the cursor, the next row and
\* whether the function has returned or panicked.  Dividing a row by a
\* zero-valued pivot leaves 0/0 entries whose next comparison divides by
\* zero; the model stops there with fail = "zero pivot".
RrefIteration(m, ld, r) ==
    IF r >= m.rows \/ ld >= m.cols
    THEN [m |-> m, lead |-> ld, row |-> r, pc |-> "done", fail |-> "none"]
    ELSE LET s == PivotSearch(m, r, r, ld) IN
         IF s.fail # "none"
         THEN [m |-> m, lead |-> s.lead, row |-> r, pc |-> "panic",
               fail |-> s.fail]
         ELSE IF s.returned
         THEN [m |-> m, lead |-> s.lead, row |-> r, pc |-> "done",
               fail |-> "none"]
         ELSE LET m1 == IF s.i # m.rows THEN swap_row(m, s.i, r) ELSE m
                  pivot == get(m1, r, s.lead)
              IN  IF pivot.numerator = 0
                  THEN [m |-> m1, lead |-> s.lead, row |-> r, pc |-> "panic",
                        fail |-> "zero pivot"]
                  ELSE [m |-> Eliminate(divide_row(m1, r, pivot), r, s.lead, 0),
                        lead |-> s.lead + 1, row |-> r + 1, pc |-> "loop",
                        fail |-> "none"]

\* the (row, col) pairs reduced_row_echelon_form reaches from (m, ld, r):
\* those of the pivot search, `get(row, lead)` and `get(j, lead)` of lines
\* 248 and 251, and every column of the rows handed to swap_row, divide_row
\* and subtract_from_row
RECURSIVE RrefAccesses(_, _, _)
RrefAccesses(m, ld, r) ==
    IF r >= m.rows \/ ld >= m.cols THEN {}
    ELSE LET s == PivotSearch(m, r, r, ld)
             n == RrefIteration(m, ld, r)
         IN  PivotSearchAccesses(m, r, r, ld)
               \cup (IF s.fail # "none" \/ s.returned THEN {}
                     ELSE { <<j, s.lead>> : j \in 0..(m.rows - 1) }
                            \cup ({s.i, r} \cup 0..(m.rows - 1))
                                   \X (0..(m.cols - 1)))
               \cup (IF n.pc = "loop" THEN RrefAccesses(n.m, n.lead, n.row)
                     ELSE {})

\* the whole call: iterate until the function returns or panics
RECURSIVE RrefRun(_, _, _)
RrefRun(m, ld, r) ==
    LET n == RrefIteration(m, ld, r)
    IN  IF n.pc = "loop" THEN RrefRun(n.m, n.lead, n.row) ELSE n

reduced_row_echelon_form(m) == RrefRun(m, 0, 0)

----------------------------------------------------------------------------
(* SpecRref: reduced_row_echelon_form on a drawn matrix, one iteration of  *)
(* its outer loop per step                                                 *)

\* matrices of at most MaxRows x MaxCols and MaxCells entries, each entry an
\* integer of -MaxEntry..MaxEntry or one of the stored forms 0/2, 1/2
MaxRows == 3
MaxCols == 3
MaxCells == 6
MaxEntry == 1

Entries(maxEntry) ==
    { Fraction(n, 1) : n \in (-maxEntry)..maxEntry }
      \cup { Fraction(0, 2), Fraction(1, 2) }

Matrices(maxRows, maxCols, maxCells, maxEntry) ==
    UNION { { Matrix(rc[1], rc[2], d) :
              d \in [1..(rc[1] * rc[2]) -> Entries(maxEntry)] } :
            rc \in { sh \in (0..maxRows) \X (0..maxCols) :
                      sh[1] * sh[2] <= maxCells } }

RrefIdle ==
    /\ mat0 = MatrixNew(0, 0) /\ mat = MatrixNew(0, 0)
    /\ lead = 0 /\ row = 0 /\ rpc = "idle" /\ rfail = "none"

RrefInit ==
    /\ mat0 \in Matrices(MaxRows, MaxCols, MaxCells, MaxEntry)
    /\ mat = mat0
    /\ lead = 0 /\ row = 0 /\ rpc = "loop" /\ rfail = "none"

RrefStep ==
    /\ rpc = "loop"
    /\ LET n == RrefIteration(mat, lead, row)
       IN  /\ mat' = n.m
           /\ lead' = n.lead
           /\ row' = n.row
           /\ rpc' = n.pc
           /\ rfail' = n.fail
    /\ UNCHANGED <<mat0, fracVars, solverVars, cpiVars, switchVars, input, restVars>>

RrefNext == RrefStep

----------------------------------------------------------------------------
(* CartesianProductIterator *)

CartesianProductIteratorNew(max, length) ==
    [max |-> max, current |-> [k \in 1..length |-> 0], done |-> FALSE]

\* next without the inner loop of lines 454-456: the coordinates after the
\* incremented one keep their values
CartesianNextNoReset(it) ==
    IF it.done
    THEN [some |-> FALSE, item |-> <<>>, it |-> it]
    ELSE LET below == { i \in 1..Len(it.current) : it.current[i] < it.max }
         IN  IF below = {}
             THEN [some |-> TRUE, item |-> it.current,
                   it |-> [it EXCEPT !.done = TRUE]]
             ELSE LET i == CHOOSE k \in below : \A l \in below : l <= k
                  IN  [some |-> TRUE, item |-> it.current,
                       it |-> [it EXCEPT !.current =
                                 [k \in 1..Len(it.current) |->
                                    IF k = i THEN it.current[k] + 1
                                    ELSE it.current[k]]]]
\* Iterator::next: the item (None when done) and the iterator afterwards
CartesianNext(it) ==
    IF it.done
    THEN [some |-> FALSE, item |-> <<>>, it |-> it]
    ELSE LET below == { i \in 1..Len(it.current) : it.current[i] < it.max }
         IN  IF below = {}
             THEN [some |-> TRUE, item |-> it.current,
                   it |-> [it EXCEPT !.done = TRUE]]
             ELSE LET i == CHOOSE k \in below : \A l \in below : l <= k
                  IN  [some |-> TRUE, item |-> it.current,
                       it |-> [it EXCEPT !.current =
                                 [k \in 1..Len(it.current) |->
                                    IF k < i THEN it.current[k]
                                    ELSE IF k = i THEN it.current[k] + 1
                                    ELSE 0]]]

----------------------------------------------------------------------------
(* SpecCartesian: an iterator of a drawn range and length, driven by next() *)

\* coordinates range over 0..max with max <= MaxIterMax, tuples have at most
\* MaxIterLen coordinates, and next() is called at most MaxNones times after
\* the iterator is done
MaxIterMax == 3
MaxIterLen == 3
MaxNones == 2

CpiIdle ==
    /\ cit = CartesianProductIteratorNew(0, 0)
    /\ yielded = <<>>
    /\ nones = 0

CpiInit ==
    /\ \E max \in 0..MaxIterMax, length \in 0..MaxIterLen :
         cit = CartesianProductIteratorNew(max, length)
    /\ yielded = <<>>
    /\ nones = 0

\* one call of next(): the item is collected, a None is counted
CpiNext ==
    /\ nones < MaxNones
    /\ LET n == CartesianNext(cit)
       IN  /\ cit' = n.it
           /\ IF n.some
              THEN yielded' = Append(yielded, n.item) /\ UNCHANGED nones
              ELSE nones' = nones + 1 /\ UNCHANGED yielded
    /\ UNCHANGED <<fracVars, rrefVars, solverVars, switchVars, input, restVars>>

CpiSpecNext == CpiNext

----------------------------------------------------------------------------
(* Machine and find_min_clicks_to_setup_joltage *)

\* JoltageState is [u16; 10]
JoltageLen == 10
I32Max == 2147483647

\* machines of at most MaxBits indicator positions and MaxButtons buttons,
\* each button a non-empty mask below 2^bit_count, each listed joltage at
\* most MaxJoltage (positions past bit_count stay 0, as the parser's
\* zero-filled array leaves them); part2's input holds at most MaxMachines
MaxBits == 3
MaxButtons == 3
MaxJoltage == 2
MaxMachines == 2

\* button.0 & (1 << row) != 0
BitSet(mask, r) == (mask \div Pow2(r)) % 2 = 1

ButtonLists(bits) ==
    UNION { [1..n -> 1..(Pow2(bits) - 1)] : n \in 0..MaxButtons }

JoltageStates(bits) ==
    { [k \in 1..JoltageLen |-> IF k <= bits THEN j[k] ELSE 0] :
        j \in [1..bits -> 0..MaxJoltage] }

Machines(maxBits) ==
    UNION { { [bit_count |-> bits, buttons |-> b, expected_joltage |-> j] :
              b \in ButtonLists(bits), j \in JoltageStates(bits) } :
            bits \in 0..maxBits }

\* lines 471-487: the augmented matrix, one row per bit position, one column
\* per button and the joltage column last
RECURSIVE SetButtons(_, _, _, _)
SetButtons(m, mc, col, r) ==
    IF col > Len(mc.buttons) THEN m
    ELSE IF r < 0 THEN SetButtons(m, mc, col + 1, mc.bit_count - 1)
    ELSE SetButtons(IF BitSet(mc.buttons[col], r)
                    THEN set(m, r, col - 1, FractionOne) ELSE m,
                    mc, col, r - 1)

RECURSIVE SetJoltage(_, _, _)
SetJoltage(m, mc, r) ==
    IF r >= m.rows THEN m
    ELSE SetJoltage(set(m, r, m.cols - 1,
                        FractionFromInt(mc.expected_joltage[r + 1])),
                    mc, r + 1)

BuildMatrix(mc) ==
    LET rows == mc.bit_count
        cols == Len(mc.buttons) + 1
    IN  SetJoltage(
          SetButtons(MatrixNew(rows, cols), mc, 1, rows - 1), mc, 0)

\* the (row, col) pairs find_min_clicks_to_setup_joltage passes to set and
\* get on the matrix m of machine mc: lines 477 and 482-486, find_pivot_column
\* (lines 492, 501, 527) and lines 502, 528, 531
SolverAccesses(mc, m) ==
    UNION { { <<r, col - 1>> : r \in { q \in 0..(mc.bit_count - 1) :
                                         BitSet(mc.buttons[col], q) } } :
            col \in 1..Len(mc.buttons) }
      \cup { <<r, Len(mc.buttons)>> : r \in 0..(mc.bit_count - 1) }
      \cup (0..(mc.bit_count - 1)) \X (0..(m.cols - 1))
      \cup { <<r, j>> : r \in 0..(mc.bit_count - 1), j \in 0..(m.cols - 2) }

\* lines 490-495: the columns 0..cols-2 left after removing every row's
\* pivot column, in increasing order
RECURSIVE RetainFree(_, _, _)
\* the loop of line 491 over 0..rows-1 instead of 0..rows: the last row's
\* pivot column is not removed
RECURSIVE RetainFreeButLastRow(_, _, _)
RetainFreeButLastRow(m, fv, r) ==
    IF r >= m.rows - 1 THEN fv
    ELSE LET p == find_pivot_column(m, r)
         IN  RetainFreeButLastRow(m,
                                  IF p.some
                                  THEN SelectSeq(fv, LAMBDA c : c # p.col)
                                  ELSE fv,
                                  r + 1)
RetainFree(m, fv, r) ==
    IF r >= m.rows THEN fv
    ELSE LET p == find_pivot_column(m, r)
         IN  RetainFree(m,
                        IF p.some THEN SelectSeq(fv, LAMBDA c : c # p.col)
                        ELSE fv,
                        r + 1)

FreeVars(m) == RetainFree(m, [k \in 1..(m.cols - 1) |-> k - 1], 0)

\* solution.iter().sum()
RECURSIVE SumFirst(_, _)
SumFirst(s, n) == IF n = 0 THEN 0 ELSE s[n] + SumFirst(s, n - 1)
SumSeq(s) == SumFirst(s, Len(s))

\* expected_joltage.0.iter().max()
RECURSIVE MaxFirst(_, _)
MaxFirst(s, n) ==
    IF n = 1 THEN s[1]
    ELSE LET t == MaxFirst(s, n - 1) IN IF s[n] > t THEN s[n] ELSE t
\* the first entry taken for the largest
FirstEntry(s) == s[1]
MaxSeq(s) == MaxFirst(s, Len(s))

Ok(v) == [kind |-> "ok", value |-> v, message |-> ""]
Panic(msg) == [kind |-> "panic", value |-> 0, message |-> msg]
NoOutcome == [kind |-> "none", value |-> 0, message |-> ""]

\* lines 499-504: the unique-solution read-off, row by row.  The right-hand
\* side of `solution[col] = ...unwrap()` is evaluated before the index.
RECURSIVE UniqueReadOff(_, _, _)
UniqueReadOff(m, sol, r) ==
    IF r >= m.rows THEN [panic |-> "", solution |-> sol]
    ELSE LET p == find_pivot_column(m, r) IN
         IF ~p.some THEN UniqueReadOff(m, sol, r + 1)
         ELSE LET v == intify(simplify(get(m, r, m.cols - 1))) IN
              IF ~v.ok
              THEN [panic |-> "unwrap on Err(not an integer)",
                    solution |-> sol]
              ELSE IF p.col >= Len(sol)
              THEN [panic |-> "index out of bounds", solution |-> sol]
              ELSE UniqueReadOff(m, [sol EXCEPT ![p.col + 1] = v.value], r + 1)

\* lines 497-508
UniqueSolutionOutcome(m) ==
    LET u == UniqueReadOff(m, [k \in 1..(m.cols - 1) |-> 0], 0)
        sum == SumSeq(u.solution)
    IN  IF u.panic # "" THEN Panic(u.panic)
        ELSE IF sum < 0
        THEN Panic("unwrap on Err(TryFromIntError)")
        ELSE Ok(sum)

\* lines 529-533: val -= x.get(row, j) * solution[j].into() for j != col
RECURSIVE RowValue(_, _, _, _, _, _)
RowValue(m, sol, r, col, j, val) ==
    IF j >= m.cols - 1 THEN val
    ELSE RowValue(m, sol, r, col, j + 1,
                  IF j # col
                  THEN sub_assign(val, mul(get(m, r, j),
                                           FractionFromInt(sol[j + 1])))
                  ELSE val)

\* lines 526-546: the closure of `(0..rows).all(...)`, row by row, stopping
\* at the first row that returns false
RECURSIVE BackSubstitute(_, _, _)
BackSubstitute(m, sol, r) ==
    IF r >= m.rows THEN [valid |-> TRUE, panic |-> "", solution |-> sol]
    ELSE LET p == find_pivot_column(m, r) IN
         IF ~p.some THEN BackSubstitute(m, sol, r + 1)
         ELSE LET val == simplify(RowValue(m, sol, r, p.col, 0,
                                           get(m, r, m.cols - 1)))
                  v == intify(simplify(val))
              IN  IF val.numerator < 0
                  THEN [valid |-> FALSE, panic |-> "", solution |-> sol]
                  ELSE IF ~v.ok
                  THEN [valid |-> FALSE, panic |-> "", solution |-> sol]
                  ELSE IF p.col >= Len(sol)
                  THEN [valid |-> FALSE, panic |-> "index out of bounds",
                        solution |-> sol]
                  ELSE BackSubstitute(m, [sol EXCEPT ![p.col + 1] = v.value],
                                      r + 1)

\* lines 519-522: the working vector with the free variables assigned
AssignFree(m, fv, assignments) ==
    [k \in 1..(m.cols - 1) |->
       IF \E i \in 1..Len(fv) : fv[i] = k - 1
       THEN assignments[CHOOSE i \in 1..Len(fv) : fv[i] = k - 1]
       ELSE 0]

None == [some |-> FALSE, value |-> <<>>]
Some(v) == [some |-> TRUE, value |-> v]

----------------------------------------------------------------------------
(* Spec: part2 maps find_min_clicks_to_setup_joltage over its input and    *)
(* sums the results; a panic inside the call unwinds through part2.  The   *)
(* input list is read one machine at a time, so each machine is drawn when *)
(* the iterator reaches it.                                                *)

NoMachine ==
    [bit_count |-> 0, buttons |-> <<>>,
     expected_joltage |-> [k \in 1..JoltageLen |-> 0]]

\* no call in progress: the solver's locals do not exist
NoCall ==
    /\ machine = NoMachine
    /\ x = MatrixNew(0, 0)
    /\ free_vars = <<>>
    /\ iter = CartesianProductIteratorNew(0, 0)
    /\ solution = <<>>
    /\ valid = FALSE
    /\ best_sum = I32Max
    /\ best_solution = None
    /\ outcome = NoOutcome

SolverInit ==
    /\ pending \in 0..MaxMachines
    /\ total = 0
    /\ pc = "idle"
    /\ NoCall
    /\ batch = "running"

\* part2's iterator yields the next machine and the call builds its matrix
Part2Next ==
    /\ batch = "running" /\ pc = "idle" /\ pending > 0
    /\ \E mc \in Machines(MaxBits) :
         /\ machine' = mc
         /\ x' = BuildMatrix(mc)
    /\ pending' = pending - 1
    /\ pc' = "built"
    /\ free_vars' = <<>>
    /\ iter' = CartesianProductIteratorNew(0, 0)
    /\ solution' = <<>>
    /\ valid' = FALSE
    /\ best_sum' = I32Max
    /\ best_solution' = None
    /\ outcome' = NoOutcome
    /\ UNCHANGED <<total, batch>>
    /\ UNCHANGED <<fracVars, rrefVars, cpiVars, switchVars, input, restVars>>

\* line 488
Reduce ==
    /\ pc = "built"
    /\ LET n == reduced_row_echelon_form(x)
       IN  /\ x' = n.m
           /\ IF n.pc = "panic"
              THEN /\ pc' = "panic" /\ outcome' = Panic(n.fail)
                   /\ batch' = "panicked"
              ELSE /\ pc' = "reduced" /\ UNCHANGED <<outcome, batch>>
    /\ UNCHANGED <<pending, total, machine, free_vars, iter, solution, valid,
                   best_sum, best_solution>>
    /\ UNCHANGED <<fracVars, rrefVars, cpiVars, switchVars, input, restVars>>

\* lines 490-508: no free variable, the solution is read off the matrix
UniqueSolution ==
    /\ pc = "reduced"
    /\ FreeVars(x) = <<>>
    /\ free_vars' = FreeVars(x)
    /\ LET o == UniqueSolutionOutcome(x)
       IN  /\ outcome' = o
           /\ IF o.kind = "ok"
              THEN pc' = "returned" /\ UNCHANGED batch
              ELSE pc' = "panic" /\ batch' = "panicked"
    /\ solution' = UniqueReadOff(x, [k \in 1..(x.cols - 1) |-> 0], 0).solution
    /\ UNCHANGED <<pending, total, machine, x, iter, valid, best_sum,
                   best_solution>>
    /\ UNCHANGED <<fracVars, rrefVars, cpiVars, switchVars, input, restVars>>

\* lines 490-518: free variables exist, the enumeration starts
StartSearch ==
    /\ pc = "reduced"
    /\ FreeVars(x) # <<>>
    /\ free_vars' = FreeVars(x)
    /\ iter' = CartesianProductIteratorNew(MaxSeq(machine.expected_joltage),
                                           Len(FreeVars(x)))
    /\ best_sum' = I32Max
    /\ best_solution' = None
    /\ pc' = "search"
    /\ UNCHANGED <<pending, total, machine, x, solution, valid, outcome,
                   batch>>
    /\ UNCHANGED <<fracVars, rrefVars, cpiVars, switchVars, input, restVars>>

\* line 554 with `<=`: a candidate of equal sum replaces the retained one
IsBetterOrEqual(sum, best) == sum <= best
\* line 554: `sum < best_sum`
IsBetter(sum, best) == sum < best

\* lines 518-559: one candidate of the enumeration
SearchCandidate ==
    /\ pc = "search"
    /\ ~iter.done
    /\ LET n == CartesianNext(iter)
           b == BackSubstitute(x, AssignFree(x, free_vars, n.item), 0)
           sum == SumSeq(b.solution)
       IN  /\ iter' = n.it
           /\ solution' = b.solution
           /\ valid' = b.valid
           /\ IF b.panic # ""
              THEN /\ pc' = "panic" /\ outcome' = Panic(b.panic)
                   /\ batch' = "panicked"
                   /\ UNCHANGED <<best_sum, best_solution>>
              ELSE /\ IF b.valid /\ IsBetter(sum, best_sum)
                      THEN /\ best_sum' = sum
                           /\ best_solution' = Some(b.solution)
                      ELSE UNCHANGED <<best_sum, best_solution>>
                   /\ UNCHANGED <<pc, outcome, batch>>
    /\ UNCHANGED <<pending, total, machine, x, free_vars>>
    /\ UNCHANGED <<fracVars, rrefVars, cpiVars, switchVars, input, restVars>>

\* lines 561-566: the iterator is exhausted
SearchFinish ==
    /\ pc = "search"
    /\ iter.done
    /\ IF ~best_solution.some
       THEN /\ outcome' = Panic("No solution found")
            /\ pc' = "panic" /\ batch' = "panicked"
       ELSE /\ outcome' = Ok(best_sum)
            /\ pc' = "returned"
            /\ UNCHANGED batch
    /\ UNCHANGED <<pending, total, machine, x, free_vars, iter, solution,
                   valid, best_sum, best_solution>>
    /\ UNCHANGED <<fracVars, rrefVars, cpiVars, switchVars, input, restVars>>

\* the call has returned: its locals are dropped and sum() adds its value
Part2Add ==
    /\ batch = "running" /\ pc = "returned"
    /\ total' = total + outcome.value
    /\ pc' = "idle"
    /\ machine' = NoMachine
    /\ x' = MatrixNew(0, 0)
    /\ free_vars' = <<>>
    /\ iter' = CartesianProductIteratorNew(0, 0)
    /\ solution' = <<>>
    /\ valid' = FALSE
    /\ best_sum' = I32Max
    /\ best_solution' = None
    /\ outcome' = NoOutcome
    /\ UNCHANGED <<pending, batch>>
    /\ UNCHANGED <<fracVars, rrefVars, cpiVars, switchVars, input, restVars>>

\* the input is exhausted: part2 returns the sum
Part2Return ==
    /\ batch = "running" /\ pc = "idle" /\ pending = 0
    /\ batch' = "returned"
    /\ UNCHANGED <<pending, total, machine, pc, x, free_vars, iter, solution,
                   valid, best_sum, best_solution, outcome>>
    /\ UNCHANGED <<fracVars, rrefVars, cpiVars, switchVars, input, restVars>>

SolverNext ==
    \/ Part2Next
    \/ Reduce
    \/ UniqueSolution
    \/ StartSearch
    \/ SearchCandidate
    \/ SearchFinish
    \/ Part2Add
    \/ Part2Return

----------------------------------------------------------------------------
(* Pattern and find_min_clicks_to_switch_on: part1 maps the breadth-first  *)
(* search over its input and sums the results                              *)

\* `^` on u16
RECURSIVE BitXor(_, _)
BitXor(a, b) ==
    IF a = 0 /\ b = 0 THEN 0
    ELSE ((a + b) % 2) + 2 * BitXor(a \div 2, b \div 2)

all_zero == 0
click(state, button) == BitXor(state, button)

\* `visited` is [bool; 1024]
VisitedLen == 1024

\* the machines part1 is run on: the indicator pattern is any pattern of
\* bit_count bits, the buttons as for part2, the joltages (unused) zero
SwitchMachines(maxBits) ==
    UNION { { [bit_count |-> bits, expected_state |-> e, buttons |-> b,
               expected_joltage |-> [k \in 1..JoltageLen |-> 0]] :
              e \in 0..(Pow2(bits) - 1), b \in ButtonLists(bits) } :
            bits \in 0..maxBits }

\* push_front instead of push_back: the search turns depth-first
PushFront(q, item) == <<item>> \o q
push_back(q, item) == Append(q, item)

\* lines 135-146: the buttons in order from button b on; `found` carries the
\* early return of line 140, `panic` an index past the visited table
RECURSIVE ClickButtons(_, _, _, _, _, _)
ClickButtons(mc, state, clicks, q, vis, b) ==
    IF b > Len(mc.buttons)
    THEN [found |-> FALSE, panic |-> FALSE, queue |-> q, visited |-> vis]
    ELSE LET next_state == click(state, mc.buttons[b])
             next_clicks == clicks + 1
         IN  IF next_state = mc.expected_state
             THEN [found |-> TRUE, panic |-> FALSE, queue |-> q,
                   visited |-> vis]
             ELSE IF next_state >= VisitedLen
             THEN [found |-> FALSE, panic |-> TRUE, queue |-> q,
                   visited |-> vis]
             ELSE IF next_state \notin vis
             THEN ClickButtons(mc, state, clicks,
                               push_back(q, [state |-> next_state,
                                             clicks |-> next_clicks]),
                               vis \cup {next_state}, b + 1)
             ELSE ClickButtons(mc, state, clicks, q, vis, b + 1)

\* machines of more than ten positions, which from_str accepts as well: the
\* buttons toggle the leftmost and the rightmost position
WideBits == 11
WideSwitchMachines(bits) ==
    LET left == Pow2(bits - 1)
        wirings == { <<>> } \cup { <<a>> : a \in {left, 1} }
                     \cup { <<a, b>> : a \in {left, 1}, b \in {left, 1} }
    IN  { [bit_count |-> bits, expected_state |-> e, buttons |-> w,
           expected_joltage |-> [k \in 1..JoltageLen |-> 0]] :
          e \in {1, left, left + 1}, w \in wirings }

NoSwitchMachine ==
    [bit_count |-> 0, expected_state |-> 0, buttons |-> <<>>,
     expected_joltage |-> [k \in 1..JoltageLen |-> 0]]

SwitchIdle ==
    /\ p1pending = 0 /\ p1total = 0 /\ p1machine = NoSwitchMachine
    /\ p1pc = "idle" /\ queue = <<>> /\ visited = {}
    /\ popped = <<>>
    /\ p1outcome = NoOutcome /\ p1batch = "idle"

SwitchInit ==
    /\ p1pending \in 0..MaxMachines /\ p1total = 0
    /\ p1machine = NoSwitchMachine
    /\ p1pc = "idle" /\ queue = <<>> /\ visited = {}
    /\ popped = <<>>
    /\ p1outcome = NoOutcome /\ p1batch = "running"

\* lines 118-121 for machine mc
StartSwitch(mc) ==
    /\ p1machine' = mc
    /\ queue' = <<[state |-> all_zero, clicks |-> 0]>>
    /\ visited' = {all_zero}
    /\ popped' = <<>>
    /\ p1pc' = "loop"
    /\ p1outcome' = NoOutcome

\* part1's iterator yields the next machine and the search is set up
Part1Next ==
    /\ p1batch = "running" /\ p1pc = "idle" /\ p1pending > 0
    /\ \E mc \in SwitchMachines(MaxBits) \cup WideSwitchMachines(WideBits) :
         StartSwitch(mc)
    /\ p1pending' = p1pending - 1
    /\ UNCHANGED <<p1total, p1batch>>
    /\ UNCHANGED <<fracVars, rrefVars, solverVars, cpiVars, input, restVars>>

\* lines 127-147: one iteration of the while loop
SwitchIteration ==
    /\ p1pc = "loop"
    /\ queue # <<>>
    /\ LET state == queue[1].state
           clicks == queue[1].clicks
           rest == SubSeq(queue, 2, Len(queue))
       IN  IF state = p1machine.expected_state
           THEN /\ p1outcome' = Ok(clicks)
                /\ p1pc' = "returned"
                /\ queue' = rest
                /\ UNCHANGED <<visited, p1batch>>
           ELSE LET c == ClickButtons(p1machine, state, clicks, rest,
                                      visited, 1)
                IN  /\ queue' = c.queue
                    /\ visited' = c.visited
                    /\ IF c.found
                       THEN /\ p1outcome' = Ok(clicks + 1)
                            /\ p1pc' = "returned"
                            /\ UNCHANGED p1batch
                       ELSE IF c.panic
                       THEN /\ p1outcome' = Panic("index out of bounds")
                            /\ p1pc' = "panic"
                            /\ p1batch' = "panicked"
                       ELSE UNCHANGED <<p1outcome, p1pc, p1batch>>
    /\ popped' = Append(popped, queue[1])
    /\ UNCHANGED <<p1pending, p1total, p1machine>>
    /\ UNCHANGED <<fracVars, rrefVars, solverVars, cpiVars, input, restVars>>

\* line 149: the queue ran empty
SwitchExhausted ==
    /\ p1pc = "loop"
    /\ queue = <<>>
    /\ p1outcome' = Panic("No solution found")
    /\ p1pc' = "panic"
    /\ p1batch' = "panicked"
    /\ UNCHANGED <<p1pending, p1total, p1machine, queue, visited, popped>>
    /\ UNCHANGED <<fracVars, rrefVars, solverVars, cpiVars, input, restVars>>

\* the call has returned: its locals are dropped and sum() adds its value
Part1Add ==
    /\ p1batch = "running" /\ p1pc = "returned"
    /\ p1total' = p1total + p1outcome.value
    /\ p1pc' = "idle"
    /\ p1machine' = NoSwitchMachine
    /\ queue' = <<>>
    /\ visited' = {}
    /\ popped' = <<>>
    /\ p1outcome' = NoOutcome
    /\ UNCHANGED <<p1pending, p1batch>>
    /\ UNCHANGED <<fracVars, rrefVars, solverVars, cpiVars, input, restVars>>

\* the input is exhausted: part1 returns the sum
Part1Return ==
    /\ p1batch = "running" /\ p1pc = "idle" /\ p1pending = 0
    /\ p1batch' = "returned"
    /\ UNCHANGED <<p1pending, p1total, p1machine, p1pc, queue, visited,
                   p1outcome, popped>>
    /\ UNCHANGED <<fracVars, rrefVars, solverVars, cpiVars, input, restVars>>

Part1SpecNext ==
    \/ Part1Next
    \/ SwitchIteration
    \/ SwitchExhausted
    \/ Part1Add
    \/ Part1Return

----------------------------------------------------------------------------
(* The parser.  A string is the sequence of its characters.                *)

Whitespace == {" ", "\t", "\n", "\f", "\r"}

\* the pieces of s between the positions of its separator characters,
\* empty pieces included
Pieces(s, separators) ==
    LET seps == { i \in 1..Len(s) : s[i] \in separators }
        \* position of the k-th separator, 0 before the first and Len(s) + 1
        \* after the last
        At(k) == IF k = 0 THEN 0
                 ELSE IF k > Cardinality(seps) THEN Len(s) + 1
                 ELSE CHOOSE p \in seps :
                        Cardinality({ q \in seps : q < p }) = k - 1
    IN  [k \in 1..(Cardinality(seps) + 1) |->
           SubSeq(s, At(k - 1) + 1, At(k) - 1)]

\* str::split on one character
split(s, sep) == Pieces(s, {sep})

\* str::split_ascii_whitespace: the non-empty runs of non-whitespace
split_ascii_whitespace(s) ==
    SelectSeq(Pieces(s, Whitespace), LAMBDA w : w # <<>>)

\* str::lines: the pieces between line feeds, a trailing carriage return
\* removed from each, no empty piece after the last line feed
lines(text) ==
    LET pieces == split(text, "\n")
        kept == IF pieces[Len(pieces)] = <<>>
                THEN SubSeq(pieces, 1, Len(pieces) - 1) ELSE pieces
    IN  [k \in 1..Len(kept) |->
           IF kept[k] # <<>> /\ kept[k][Len(kept[k])] = "\r"
           THEN SubSeq(kept[k], 1, Len(kept[k]) - 1) ELSE kept[k]]

strip_prefix(s, c) ==
    IF s # <<>> /\ s[1] = c
    THEN [some |-> TRUE, rest |-> SubSeq(s, 2, Len(s))]
    ELSE [some |-> FALSE, rest |-> s]

strip_suffix(s, c) ==
    IF s # <<>> /\ s[Len(s)] = c
    THEN [some |-> TRUE, rest |-> SubSeq(s, 1, Len(s) - 1)]
    ELSE [some |-> FALSE, rest |-> s]

Digits == <<"0", "1", "2", "3", "4", "5", "6", "7", "8", "9">>
IsDigit(c) == \E i \in 1..10 : Digits[i] = c
DigitValue(c) == (CHOOSE i \in 1..10 : Digits[i] = c) - 1

\* str::parse for an unsigned integer type of maximum max: decimal digits
\* after an optional `+`, Err on anything else and on a value above max
RECURSIVE ParseDigits(_, _, _, _)
ParseDigits(s, i, acc, max) ==
    IF i > Len(s) THEN [ok |-> TRUE, value |-> acc]
    ELSE IF ~IsDigit(s[i]) THEN [ok |-> FALSE, value |-> 0]
    ELSE LET v == acc * 10 + DigitValue(s[i])
         IN  IF v > max THEN [ok |-> FALSE, value |-> 0]
             ELSE ParseDigits(s, i + 1, v, max)

parse_unsigned(s, max) ==
    LET digits == IF s # <<>> /\ s[1] = "+" THEN SubSeq(s, 2, Len(s)) ELSE s
    IN  IF digits = <<>> THEN [ok |-> FALSE, value |-> 0]
        ELSE ParseDigits(digits, 1, 0, max)

U8Max == 255
U16Max == 65535

\* `|` on u16
RECURSIVE BitOr(_, _)
BitOr(a, b) ==
    IF a = 0 /\ b = 0 THEN 0
    ELSE (IF a % 2 = 1 \/ b % 2 = 1 THEN 1 ELSE 0)
           + 2 * BitOr(a \div 2, b \div 2)

\* lines 20-23: one character of the indicator pattern per step
RECURSIVE PatternBits(_, _, _)
PatternBits(s, i, bits) ==
    IF i > Len(s) THEN bits
    ELSE PatternBits(s, i + 1,
                     BitOr((bits * 2) % (U16Max + 1),
                           IF s[i] = "#" THEN 1 ELSE 0))

\* `bit_count += 1` on u8 overflows at the 256th character: a panic with
\* overflow checks, a wrap without
from_machine_config_string(in, overflow_checks) ==
    LET p == strip_prefix(in, "[")
        q == strip_suffix(p.rest, "]")
    IN  IF ~p.some \/ ~q.some
        THEN [panic |-> TRUE, bits |-> 0, bit_count |-> 0]
        ELSE IF Len(q.rest) > U8Max /\ overflow_checks
        THEN [panic |-> TRUE, bits |-> 0, bit_count |-> 0]
        ELSE [panic |-> FALSE, bits |-> PatternBits(q.rest, 1, 0),
              bit_count |-> Len(q.rest) % (U8Max + 1)]

\* lines 32-34: `bits |= 1 << (bit_count - c - 1)` for the pieces from the
\* i-th on.  The subtraction is on u8 and the shift on u16: out of range
\* they panic with overflow checks and wrap without.
RECURSIVE ButtonBits(_, _, _, _, _)
\* `bits |= 1 << c`: the listed position counted from the right
RECURSIVE ButtonBitsFromRight(_, _, _, _, _)
ButtonBitsFromRight(pieces, i, bit_count, bits, overflow_checks) ==
    IF i > Len(pieces) THEN [panic |-> FALSE, bits |-> bits]
    ELSE LET c == parse_unsigned(pieces[i], U8Max)
         IN  IF ~c.ok THEN [panic |-> TRUE, bits |-> 0]
             ELSE ButtonBitsFromRight(pieces, i + 1, bit_count,
                                      BitOr(bits, Pow2(c.value % 16)),
                                      overflow_checks)
ButtonBits(pieces, i, bit_count, bits, overflow_checks) ==
    IF i > Len(pieces) THEN [panic |-> FALSE, bits |-> bits]
    ELSE LET c == parse_unsigned(pieces[i], U8Max)
             amount == bit_count - c.value - 1
         IN  IF ~c.ok THEN [panic |-> TRUE, bits |-> 0]
             ELSE IF (amount < 0 \/ amount >= 16) /\ overflow_checks
             THEN [panic |-> TRUE, bits |-> 0]
             ELSE ButtonBits(pieces, i + 1, bit_count,
                             BitOr(bits, Pow2((amount % (U8Max + 1)) % 16)),
                             overflow_checks)

from_button_wiring_string(in, bit_count, overflow_checks) ==
    LET p == strip_prefix(in, "(")
        q == strip_suffix(p.rest, ")")
    IN  IF ~p.some \/ ~q.some THEN [panic |-> TRUE, bits |-> 0]
        ELSE ButtonBits(split(q.rest, ","), 1, bit_count, 0, overflow_checks)

\* lines 67-74: the pieces in reverse order, the i-th of them (from 0) stored
\* at index i
RECURSIVE JoltageFrom(_, _, _)
\* the pieces stored in the order they are written, without rev()
RECURSIVE JoltageFromForward(_, _, _)
JoltageFromForward(pieces, i, state) ==
    IF i >= Len(pieces) THEN [panic |-> FALSE, state |-> state]
    ELSE LET val == parse_unsigned(pieces[i + 1], U16Max)
         IN  IF ~val.ok \/ i >= JoltageLen
             THEN [panic |-> TRUE, state |-> state]
             ELSE JoltageFromForward(pieces, i + 1,
                                     [state EXCEPT ![i + 1] = val.value])
JoltageFrom(pieces, i, state) ==
    IF i >= Len(pieces) THEN [panic |-> FALSE, state |-> state]
    ELSE LET val == parse_unsigned(pieces[Len(pieces) - i], U16Max)
         IN  IF ~val.ok \/ i >= JoltageLen
             THEN [panic |-> TRUE, state |-> state]
             ELSE JoltageFrom(pieces, i + 1, [state EXCEPT ![i + 1] = val.value])

JoltageZero == [k \in 1..JoltageLen |-> 0]

\* None when the piece does not start with `{`
from_expected_joltage(in) ==
    LET p == strip_prefix(in, "{")
        q == strip_suffix(p.rest, "}")
    IN  IF ~p.some THEN [some |-> FALSE, panic |-> FALSE, state |-> JoltageZero]
        ELSE IF ~q.some
        THEN [some |-> TRUE, panic |-> TRUE, state |-> JoltageZero]
        ELSE LET j == JoltageFrom(split(q.rest, ","), 0, JoltageZero)
             IN  [some |-> TRUE, panic |-> j.panic, state |-> j.state]

\* lines 96-102: the parts after the first, in order
RECURSIVE MachineParts(_, _, _, _)
MachineParts(parts, i, mc, overflow_checks) ==
    IF i > Len(parts) THEN [panic |-> FALSE, machine |-> mc]
    ELSE LET j == from_expected_joltage(parts[i])
             b == from_button_wiring_string(parts[i], mc.bit_count,
                                            overflow_checks)
         IN  IF j.some
             THEN IF j.panic THEN [panic |-> TRUE, machine |-> mc]
                  ELSE MachineParts(parts, i + 1,
                                    [mc EXCEPT !.expected_joltage = j.state],
                                    overflow_checks)
             ELSE IF b.panic THEN [panic |-> TRUE, machine |-> mc]
                  ELSE MachineParts(parts, i + 1,
                                    [mc EXCEPT !.buttons = Append(@, b.bits)],
                                    overflow_checks)

\* Machine::from_str
from_str(s, overflow_checks) ==
    LET parts == split_ascii_whitespace(s)
        empty == [bit_count |-> 0, expected_state |-> 0, buttons |-> <<>>,
                  expected_joltage |-> JoltageZero]
    IN  IF parts = <<>> THEN [panic |-> TRUE, machine |-> empty]
        ELSE LET c == from_machine_config_string(parts[1], overflow_checks)
             IN  IF c.panic THEN [panic |-> TRUE, machine |-> empty]
                 ELSE MachineParts(parts, 2,
                                   [empty EXCEPT !.bit_count = c.bit_count,
                                                 !.expected_state = c.bits],
                                   overflow_checks)

\* the generator: one machine per line
parse(in, overflow_checks) ==
    LET ls == lines(in)
        ms == [k \in 1..Len(ls) |-> from_str(ls[k], overflow_checks)]
    IN  [panic |-> \E k \in 1..Len(ls) : ms[k].panic,
         machines |-> [k \in 1..Len(ls) |-> ms[k].machine]]

----------------------------------------------------------------------------
(* SpecExample: the example of example_tests, unindented, is parsed and    *)
(* part1 and part2 are run on the machines                                 *)

\* [.##.] (3) (1,3) (2) (2,3) (0,2) (0,1) {3,5,4,7}
ExampleLine1 ==
  <<
    "[", ".", "#", "#", ".", "]", " ", "(", "3", ")", " ", "(", "1", ",",
    "3", ")", " ", "(", "2", ")", " ", "(", "2", ",", "3", ")", " ", "(",
    "0", ",", "2", ")", " ", "(", "0", ",", "1", ")", " ", "{", "3", ",",
    "5", ",", "4", ",", "7", "}" >>

\* [...#.] (0,2,3,4) (2,3) (0,4) (0,1,2) (1,2,3,4) {7,5,12,7,2}
ExampleLine2 ==
  <<
    "[", ".", ".", ".", "#", ".", "]", " ", "(", "0", ",", "2", ",", "3",
    ",", "4", ")", " ", "(", "2", ",", "3", ")", " ", "(", "0", ",", "4",
    ")", " ", "(", "0", ",", "1", ",", "2", ")", " ", "(", "1", ",", "2",
    ",", "3", ",", "4", ")", " ", "{", "7", ",", "5", ",", "1", "2", ",",
    "7", ",", "2", "}" >>

\* [.###.#] (0,1,2,3,4) (0,3,4) (0,1,2,4,5) (1,2) {10,11,11,5,10,5}
ExampleLine3 ==
  <<
    "[", ".", "#", "#", "#", ".", "#", "]", " ", "(", "0", ",", "1", ",",
    "2", ",", "3", ",", "4", ")", " ", "(", "0", ",", "3", ",", "4", ")",
    " ", "(", "0", ",", "1", ",", "2", ",", "4", ",", "5", ")", " ", "(",
    "1", ",", "2", ")", " ", "{", "1", "0", ",", "1", "1", ",", "1", "1",
    ",", "5", ",", "1", "0", ",", "5", "}" >>

ExampleData ==
    ExampleLine1 \o <<"\n">> \o ExampleLine2 \o <<"\n">> \o ExampleLine3
      \o <<"\n">>

ExampleInit ==
    /\ input = <<>>
    /\ p1pending = 0 /\ p1total = 0 /\ p1machine = NoSwitchMachine
    /\ p1pc = "idle" /\ queue = <<>> /\ visited = {}
    /\ popped = <<>>
    /\ p1outcome = NoOutcome /\ p1batch = "idle"
    /\ pending = 0 /\ total = 0 /\ pc = "idle" /\ NoCall /\ batch = "idle"

\* parse(input) in a build with or without overflow checks
ExampleParse ==
    /\ input = <<>> /\ batch = "idle" /\ p1batch = "idle"
    /\ \E overflow_checks \in BOOLEAN :
         LET p == parse(ExampleData, overflow_checks)
         IN  /\ ~p.panic
             /\ input' = p.machines
             /\ pending' = Len(p.machines)
             /\ p1pending' = Len(p.machines)
    /\ batch' = "running"
    /\ p1batch' = "running"
    /\ UNCHANGED <<total, machine, pc, x, free_vars, iter, solution, valid,
                   best_sum, best_solution, outcome>>
    /\ UNCHANGED <<p1total, p1machine, p1pc, queue, visited, p1outcome,
                   popped>>
    /\ UNCHANGED <<fracVars, rrefVars, cpiVars, restVars>>

\* part1's iterator yields the next machine of the parsed input
ExamplePart1Next ==
    /\ p1batch = "running" /\ p1pc = "idle" /\ p1pending > 0
    /\ StartSwitch(input[Len(input) - p1pending + 1])
    /\ p1pending' = p1pending - 1
    /\ UNCHANGED <<p1total, p1batch>>
    /\ UNCHANGED <<fracVars, rrefVars, solverVars, cpiVars, input, restVars>>

\* part2's iterator yields the next machine of the parsed input
ExamplePart2Next ==
    /\ batch = "running" /\ pc = "idle" /\ pending > 0
    /\ machine' = input[Len(input) - pending + 1]
    /\ x' = BuildMatrix(input[Len(input) - pending + 1])
    /\ pending' = pending - 1
    /\ pc' = "built"
    /\ free_vars' = <<>>
    /\ iter' = CartesianProductIteratorNew(0, 0)
    /\ solution' = <<>>
    /\ valid' = FALSE
    /\ best_sum' = I32Max
    /\ best_solution' = None
    /\ outcome' = NoOutcome
    /\ UNCHANGED <<total, batch>>
    /\ UNCHANGED <<fracVars, rrefVars, cpiVars, switchVars, input, restVars>>

ExampleNext ==
    \/ ExampleParse
    \/ ExamplePart1Next
    \/ SwitchIteration
    \/ Part1Add
    \/ Part1Return
    \/ ExamplePart2Next
    \/ Reduce
    \/ StartSearch
    \/ SearchCandidate
    \/ SearchFinish
    \/ Part2Add
    \/ Part2Return

----------------------------------------------------------------------------
(* SpecParse: one line is parsed and its matrix built *)

\* lines of at most MaxParseBits indicator positions, MaxParseButtons
\* buttons of at most MaxListed listed positions each, and 1 to
\* MaxParseBits joltage values of 0..MaxJoltage
MaxParseBits == 3
MaxParseButtons == 2
MaxListed == 2

\* Pattern::to_string: bit bit_count-1 first
to_string(bits, bit_count) ==
    [k \in 1..bit_count |-> IF BitSet(bits, bit_count - k) THEN "#" ELSE "."]

\* the line of a machine with w.n indicators, all written off: the buttons'
\* listed positions and the joltages as decimal digits separated by commas
WriteLine(w) ==
    LET List(values) ==
            [k \in 1..(2 * Len(values) - 1) |->
               IF k % 2 = 1 THEN Digits[values[(k + 1) \div 2] + 1] ELSE ","]
        RECURSIVE Buttons(_)
        Buttons(b) ==
            IF b > Len(w.wiring) THEN <<>>
            ELSE <<" ", "(">> \o List(w.wiring[b]) \o <<")">> \o Buttons(b + 1)
    IN  <<"[">> \o [k \in 1..w.n |-> "."] \o <<"]">> \o Buttons(1)
          \o <<" ", "{">> \o List(w.joltage) \o <<"}">>

WrittenLines(maxBits) ==
    LET Listed(n) == UNION { [1..len -> 0..(n - 1)] : len \in 1..MaxListed }
    IN  UNION { { [n |-> n, wiring |-> w, joltage |-> j] :
                  w \in UNION { [1..b -> Listed(n)] :
                                b \in 0..MaxParseButtons },
                  j \in UNION { [1..len -> 0..MaxJoltage] :
                                len \in 1..maxBits } } :
                n \in 1..maxBits }

ParseIdle ==
    /\ written = [n |-> 0, wiring |-> <<>>, joltage |-> <<>>]
    /\ line = <<>> /\ parsed = "no"

ParseInit ==
    /\ written \in WrittenLines(MaxParseBits)
    /\ line = WriteLine(written)
    /\ parsed = "no"

\* line.parse::<Machine>() in a build with or without overflow checks
ParseLine ==
    /\ parsed = "no"
    /\ \E overflow_checks \in BOOLEAN :
         LET p == from_str(line, overflow_checks)
         IN  IF p.panic
             THEN parsed' = "panic" /\ UNCHANGED input
             ELSE parsed' = "ok" /\ input' = <<p.machine>>
    /\ UNCHANGED <<written, line>>
    /\ UNCHANGED <<fracVars, rrefVars, solverVars, cpiVars, switchVars>>
    /\ UNCHANGED <<day8Vars, dialVars, utilVars>>

\* lines 471-487 on the parsed machine
ParseBuild ==
    /\ parsed = "ok" /\ pc = "idle"
    /\ machine' = input[1]
    /\ x' = BuildMatrix(input[1])
    /\ pc' = "built"
    /\ UNCHANGED <<pending, total, free_vars, iter, solution, valid, best_sum,
                   best_solution, outcome, batch>>
    /\ UNCHANGED <<fracVars, rrefVars, cpiVars, switchVars, input, restVars>>

ParseNext ==
    \/ ParseLine
    \/ ParseBuild

----------------------------------------------------------------------------
(* day8: part2, Kruskal's algorithm over a union-find forest.  A point is  *)
(* kept as its three coordinates: PackedPos holds them in fields of 17     *)
(* bits, which coordinates below 0x1FFFF fill without loss.  Indices are   *)
(* those of the code, from 0; nodes[i + 1] is the code's nodes[i].         *)

MaxPoints == 4
MaxX == 3
MaxY == 1
MaxZ == 1

\* part2_small's SIZE
SIZE == 20

\* PackedPos::squared_distance
squared_distance(a, b) ==
    (a.x - b.x) * (a.x - b.x) + (a.y - b.y) * (a.y - b.y)
      + (a.z - b.z) * (a.z - b.z)

\* the lists of points part2 is run on: 2..maxPoints points no two pairs of
\* which are the same distance apart
PointLists(maxPoints) ==
    LET Point == [x : 0..MaxX, y : 0..MaxY, z : 0..MaxZ]
        Idx(n) == { <<i, j>> \in (1..n) \X (1..n) : i < j }
    IN  UNION { { ps \in [1..n -> Point] :
                    \A e \in Idx(n) : \A f \in Idx(n) :
                        e # f => squared_distance(ps[e[1]], ps[e[2]])
                                   # squared_distance(ps[f[1]], ps[f[2]]) } :
                n \in 2..maxPoints }

\* find_set: the root of n, and the forest with the path to it compressed
RECURSIVE find_set(_, _)
find_set(n, f) ==
    IF f[n].parent # n
    THEN LET r == find_set(f[n].parent, f)
         IN  [root |-> r.root,
              forest |-> [r.forest EXCEPT ![n].parent = r.root]]
    ELSE [root |-> n, forest |-> f]

\* union_sets
union_sets(a, b, f) ==
    LET fx == find_set(a, f)
        fy == find_set(b, fx.forest)
        g == fy.forest
        swap == g[fx.root].size < g[fy.root].size
        rx == IF swap THEN fy.root ELSE fx.root
        ry == IF swap THEN fx.root ELSE fy.root
    IN  IF fx.root = fy.root THEN g
        ELSE [g EXCEPT ![ry].parent = rx,
                       ![rx].size = g[rx].size + g[ry].size]

Day8Idle ==
    /\ nodes = <<>> /\ pairs = {} /\ forest = <<>> /\ result = 0
    /\ d8pc = "idle"

\* part2_small is called with a list of points
Day8Init ==
    /\ nodes \in PointLists(MaxPoints)
    /\ pairs = {} /\ forest = <<>> /\ result = 0
    /\ d8pc = "start"

\* lines 226-240: the forest, and every pair pushed with its distance
Day8Build ==
    /\ d8pc = "start"
    /\ forest' = [i \in 0..(SIZE - 1) |->
                    [parent |-> IF i < Len(nodes) THEN i ELSE 0, size |-> 1]]
    /\ pairs' = { [value |-> squared_distance(nodes[a + 1], nodes[b + 1]),
                   annotation |-> <<a, b>>] :
                  <<a, b>> \in { e \in (0..(Len(nodes) - 1))
                                        \X (0..(Len(nodes) - 1)) :
                                 e[1] < e[2] } }
    /\ d8pc' = "loop"
    /\ UNCHANGED <<nodes, result>>
    /\ UNCHANGED <<fracVars, rrefVars, solverVars, cpiVars, switchVars, input,
                   parseVars, dialVars, utilVars>>

\* lines 252-266: one iteration of the while loop; pop() gives a pair of
\* least distance
Day8Pop ==
    /\ d8pc = "loop"
    /\ \E p \in pairs :
         /\ \A q \in pairs : p.value <= q.value
         /\ LET i == p.annotation[1]
                j == p.annotation[2]
                fu == find_set(i, forest)
                fv == find_set(j, fu.forest)
                u == fu.root
                v == fv.root
                united == union_sets(u, v, fv.forest)
            IN  /\ pairs' = pairs \ {p}
                /\ IF u # v
                   THEN /\ forest' = united
                        /\ IF united[v].size = Len(nodes)
                           THEN /\ result' = nodes[i + 1].x * nodes[j + 1].x
                                /\ d8pc' = "returned"
                           ELSE UNCHANGED <<result, d8pc>>
                   ELSE /\ forest' = fv.forest
                        /\ UNCHANGED <<result, d8pc>>
    /\ UNCHANGED nodes
    /\ UNCHANGED <<fracVars, rrefVars, solverVars, cpiVars, switchVars, input,
                   parseVars, dialVars, utilVars>>

\* line 252 with the heap empty, line 268
Day8Exhausted ==
    /\ d8pc = "loop"
    /\ pairs = {}
    /\ d8pc' = "returned"
    /\ UNCHANGED <<nodes, pairs, forest, result>>
    /\ UNCHANGED <<fracVars, rrefVars, solverVars, cpiVars, switchVars, input,
                   parseVars, dialVars, utilVars>>

Day8Next ==
    \/ Day8Build
    \/ Day8Pop
    \/ Day8Exhausted

----------------------------------------------------------------------------
(* day1: Dial.  A Rotation is kept as its direction and its u16 amount.    *)

START == 50
CAP == 100

MaxAmount == 110

\* the amounts rotations are drawn from: every amount up to maxAmount, and
\* whole numbers of turns up to the largest u16
Amounts(maxAmount) == (0..maxAmount) \cup {200, 1000, U16Max}

NoRotation == [dir |-> "none", amount |-> 0]

\* Dial::rotate
rotate(self, r) ==
    IF r.dir = "Left"
    THEN (self + CAP - (r.amount % CAP)) % CAP
    ELSE (self + (r.amount % CAP)) % CAP

\* rotate_counting_zeroes without the test `self.0 != 0`
RotateCountingFromZero(self, r) ==
    LET extra_turns == r.amount \div CAP
        net_amount == r.amount % CAP
    IN  IF r.dir = "Left"
        THEN [dial |-> (self + CAP - net_amount) % CAP,
              zeroes |-> IF net_amount >= self
                         THEN extra_turns + 1 ELSE extra_turns]
        ELSE [dial |-> (self + net_amount) % CAP,
              zeroes |-> IF self + net_amount >= CAP
                         THEN extra_turns + 1 ELSE extra_turns]

\* Dial::rotate_counting_zeroes
rotate_counting_zeroes(self, r) ==
    LET extra_turns == r.amount \div CAP
        net_amount == r.amount % CAP
    IN  IF r.dir = "Left"
        THEN [dial |-> (self + CAP - net_amount) % CAP,
              zeroes |-> IF self # 0 /\ net_amount >= self
                         THEN extra_turns + 1 ELSE extra_turns]
        ELSE [dial |-> (self + net_amount) % CAP,
              zeroes |-> IF self # 0 /\ self + net_amount >= CAP
                         THEN extra_turns + 1 ELSE extra_turns]

DialIdle ==
    /\ dial = 0 /\ rotation = NoRotation /\ before = 0 /\ rotated = 0
    /\ zeroes = 0

\* Dial::new
DialInit ==
    /\ dial = START /\ rotation = NoRotation /\ before = 0 /\ rotated = 0
    /\ zeroes = 0

\* part2's loop body for one rotation, with what rotate gives for it
DialRotate ==
    /\ \E dir \in {"Left", "Right"} : \E amount \in Amounts(MaxAmount) :
         LET r == [dir |-> dir, amount |-> amount]
             counted == rotate_counting_zeroes(dial, r)
         IN  /\ rotation' = r
             /\ before' = dial
             /\ rotated' = rotate(dial, r)
             /\ dial' = counted.dial
             /\ zeroes' = counted.zeroes
    /\ UNCHANGED <<fracVars, rrefVars, solverVars, cpiVars, switchVars, input,
                   parseVars, day8Vars, utilVars>>

DialNext ==
    \/ DialRotate

----------------------------------------------------------------------------
(* aoc-utils: PairsIterator and LinesIterator *)

MaxSliceLen == 4
MaxItem == 3
MaxBytes == 5

\* PairsIterator::new with index2 = 0
PairsIteratorNewFromZero(items) == [slice |-> items, index1 |-> 0, index2 |-> 0]
\* PairsIterator::new
PairsIteratorNew(items) == [slice |-> items, index1 |-> 0, index2 |-> 1]

\* PairsIterator::next, the recursive call included; the slice is indexed
\* from 0 in the code
RECURSIVE PairsNext(_)
PairsNext(it) ==
    IF it.index1 < Len(it.slice)
    THEN IF it.index2 < Len(it.slice)
         THEN [some |-> TRUE,
               item |-> <<it.slice[it.index1 + 1], it.slice[it.index2 + 1]>>,
               it |-> [it EXCEPT !.index2 = it.index2 + 1]]
         ELSE PairsNext([it EXCEPT !.index1 = it.index1 + 1,
                                   !.index2 = it.index1 + 2])
    ELSE [some |-> FALSE, item |-> <<>>, it |-> it]

\* LinesIterator::new
LinesIteratorNew(bytes) == [slice |-> bytes, index |-> 0]

\* position() of the last newline of a slice instead of the first
PositionLast(bytes) ==
    LET at == { k \in 1..Len(bytes) : bytes[k] = "\n" }
    IN  IF at = {} THEN -1
        ELSE (CHOOSE k \in at : \A m \in at : m <= k) - 1
\* slice.iter().position(|&c| c == b'\n'), from 0; -1 for None
position(bytes) ==
    LET at == { k \in 1..Len(bytes) : bytes[k] = "\n" }
    IN  IF at = {} THEN -1
        ELSE (CHOOSE k \in at : \A m \in at : k <= m) - 1

\* LinesIterator::next
LinesNext(it) ==
    IF it.index < Len(it.slice)
    THEN LET start == it.index
             rest == SubSeq(it.slice, start + 1, Len(it.slice))
             newline == position(rest)
             end == IF newline # -1 THEN start + newline ELSE Len(it.slice)
         IN  [some |-> TRUE,
              item |-> SubSeq(it.slice, start + 1, end),
              it |-> [it EXCEPT !.index = IF newline # -1
                                          THEN it.index + newline + 1
                                          ELSE Len(it.slice)]]
    ELSE [some |-> FALSE, item |-> <<>>, it |-> it]

UtilIdle == pit = PairsIteratorNew(<<>>) /\ lit = LinesIteratorNew(<<>>)

\* a PairsIterator over a slice of at most MaxSliceLen items
PairsInit ==
    /\ \E items \in UNION { [1..n -> 0..MaxItem] : n \in 0..MaxSliceLen } :
         pit = PairsIteratorNew(items)
    /\ lit = LinesIteratorNew(<<>>)

\* a LinesIterator over at most MaxBytes bytes
LinesInit ==
    /\ pit = PairsIteratorNew(<<>>)
    /\ \E bytes \in UNION { [1..n -> {"a", "b", "\n"}] : n \in 0..MaxBytes } :
         lit = LinesIteratorNew(bytes)

\* a call of next() on the PairsIterator
PairsNextCall ==
    /\ nones < MaxNones
    /\ LET n == PairsNext(pit)
       IN  /\ pit' = n.it
           /\ IF n.some
              THEN yielded' = Append(yielded, n.item) /\ UNCHANGED nones
              ELSE nones' = nones + 1 /\ UNCHANGED yielded
    /\ UNCHANGED <<cit, lit>>
    /\ UNCHANGED <<fracVars, rrefVars, solverVars, switchVars, input,
                   parseVars, day8Vars, dialVars>>

\* a call of next() on the LinesIterator
LinesNextCall ==
    /\ nones < MaxNones
    /\ LET n == LinesNext(lit)
       IN  /\ lit' = n.it
           /\ IF n.some
              THEN yielded' = Append(yielded, n.item) /\ UNCHANGED nones
              ELSE nones' = nones + 1 /\ UNCHANGED yielded
    /\ UNCHANGED <<cit, pit>>
    /\ UNCHANGED <<fracVars, rrefVars, solverVars, switchVars, input,
                   parseVars, day8Vars, dialVars>>

RestIdle == ParseIdle /\ Day8Idle /\ DialIdle /\ UtilIdle

----------------------------------------------------------------------------
(* The specifications *)

SolverIdle ==
    /\ pending = 0 /\ total = 0 /\ pc = "idle" /\ NoCall /\ batch = "idle"

Init ==
    FracIdle /\ RrefIdle /\ SolverInit /\ CpiIdle /\ SwitchIdle /\ input = <<>>
      /\ RestIdle
Next == SolverNext
Spec == Init /\ [][Next]_vars

InitFrac ==
    FracInit /\ RrefIdle /\ SolverIdle /\ CpiIdle /\ SwitchIdle /\ input = <<>>
      /\ RestIdle
SpecFrac == InitFrac /\ [][FracNext]_vars

InitRref ==
    FracIdle /\ RrefInit /\ SolverIdle /\ CpiIdle /\ SwitchIdle /\ input = <<>>
      /\ RestIdle
SpecRref == InitRref /\ [][RrefNext]_vars

InitMul ==
    MulInit /\ RrefIdle /\ SolverIdle /\ CpiIdle /\ SwitchIdle /\ input = <<>>
      /\ RestIdle
SpecMul == InitMul /\ [][MulNext]_vars

InitCartesian ==
    FracIdle /\ RrefIdle /\ SolverIdle /\ CpiInit /\ SwitchIdle /\ input = <<>>
      /\ RestIdle
SpecCartesian == InitCartesian /\ [][CpiSpecNext]_vars

InitPart1 ==
    FracIdle /\ RrefIdle /\ SolverIdle /\ CpiIdle /\ SwitchInit /\ input = <<>>
      /\ RestIdle
SpecPart1 == InitPart1 /\ [][Part1SpecNext]_vars

\* a call of find_min_clicks_to_switch_on that has started runs on: the
\* while loop takes its next iteration, or ends when the queue is empty
SpecPart1Live ==
    /\ InitPart1 /\ [][Part1SpecNext]_vars
    /\ WF_vars(SwitchIteration) /\ WF_vars(SwitchExhausted)

InitExample == FracIdle /\ RrefIdle /\ CpiIdle /\ ExampleInit /\ RestIdle
SpecExample == InitExample /\ [][ExampleNext]_vars

InitParse ==
    FracIdle /\ RrefIdle /\ SolverIdle /\ CpiIdle /\ SwitchIdle /\ input = <<>>
      /\ ParseInit /\ Day8Idle /\ DialIdle /\ UtilIdle
SpecParse == InitParse /\ [][ParseNext]_vars

InitDay8 ==
    /\ FracIdle /\ RrefIdle /\ SolverIdle /\ CpiIdle /\ SwitchIdle
    /\ input = <<>>
    /\ ParseIdle /\ Day8Init /\ DialIdle /\ UtilIdle
SpecDay8 == InitDay8 /\ [][Day8Next]_vars

InitDial ==
    /\ FracIdle /\ RrefIdle /\ SolverIdle /\ CpiIdle /\ SwitchIdle
    /\ input = <<>>
    /\ ParseIdle /\ Day8Idle /\ DialInit /\ UtilIdle
SpecDial == InitDial /\ [][DialNext]_vars

InitPairs ==
    /\ FracIdle /\ RrefIdle /\ SolverIdle /\ CpiIdle /\ SwitchIdle
    /\ input = <<>>
    /\ ParseIdle /\ Day8Idle /\ DialIdle /\ PairsInit
SpecPairs == InitPairs /\ [][PairsNextCall]_vars

InitLines ==
    /\ FracIdle /\ RrefIdle /\ SolverIdle /\ CpiIdle /\ SwitchIdle
    /\ input = <<>>
    /\ ParseIdle /\ Day8Idle /\ DialIdle /\ LinesInit
SpecLines == InitLines /\ [][LinesNextCall]_vars

----------------------------------------------------------------------------
(* Rational value of a stored fraction, stated without the code's helpers *)

IsZeroValue(f) == f.numerator = 0
IsOneValue(f) == f.denominator > 0 /\ f.numerator = f.denominator
SameValue(f, g) == f.numerator * g.denominator = g.numerator * f.denominator

\* the least d > 0 over which f's value can be written
ReducedDenominator(f) ==
    CHOOSE d \in 1..f.denominator :
        /\ (f.numerator * d) % f.denominator = 0
        /\ \A e \in 1..(d - 1) : (f.numerator * e) % f.denominator # 0

\* the least positive common multiple of a and b
LeastCommonMultiple(a, b) ==
    CHOOSE k \in 1..(a * b) :
        /\ k % a = 0 /\ k % b = 0
        /\ \A j \in 1..(k - 1) : j % a # 0 \/ j % b # 0

----------------------------------------------------------------------------
(* Reduced row-echelon form, stated on the entries' values *)

Entry(m, r, c) == m.data[r * m.cols + c + 1]

\* the first column of row r holding a non-zero value; m.cols if none
LeadingColumn(m, r) ==
    LET nz == { c \in 0..(m.cols - 1) : ~IsZeroValue(Entry(m, r, c)) }
    IN  IF nz = {} THEN m.cols ELSE CHOOSE c \in nz : \A d \in nz : c <= d

IsReducedRowEchelon(m) ==
    /\ \A k \in 1..Len(m.data) : m.data[k].denominator > 0
    /\ \A r \in 0..(m.rows - 1) :
         LET lc == LeadingColumn(m, r) IN
         lc < m.cols =>
           /\ IsOneValue(Entry(m, r, lc))
           /\ \A q \in 0..(m.rows - 1) : q # r => IsZeroValue(Entry(m, q, lc))
    /\ \A r \in 0..(m.rows - 2) :
         LeadingColumn(m, r + 1) < m.cols =>
           LeadingColumn(m, r) < LeadingColumn(m, r + 1)

(* C6: once reduced_row_echelon_form has returned on a matrix with at      *)
(* least one row and one column, the matrix is in reduced row-echelon      *)
(* form: every non-zero row's first non-zero entry has the value 1 (and    *)
(* compares equal to Fraction::one()), its column is zero in every other   *)
(* row, the leading columns strictly increase, zero rows come last.        *)
C6_RrefIsReduced ==
    (rpc = "done" /\ mat0.rows >= 1 /\ mat0.cols >= 1) =>
        /\ IsReducedRowEchelon(mat)
        /\ \A r \in 0..(mat.rows - 1) :
             LeadingColumn(mat, r) < mat.cols =>
               eq(Entry(mat, r, LeadingColumn(mat, r)), FractionOne)

\* a 3-row matrix whose first row starts with a zero: a row was swapped in,
\* divided by a pivot that is not 1, and the other rows were cleared
C6_Witness ==
    /\ rpc = "done"
    /\ mat0.rows = 3 /\ mat0.cols = 2
    /\ IsZeroValue(Entry(mat0, 0, 0))
    /\ ~IsZeroValue(Entry(mat0, 1, 0)) /\ ~IsOneValue(Entry(mat0, 1, 0))
    /\ ~IsZeroValue(Entry(mat0, 2, 0))
    /\ LeadingColumn(mat, 0) = 0 /\ LeadingColumn(mat, 1) = 1
    /\ LeadingColumn(mat, 2) = 2

----------------------------------------------------------------------------
(* The button / joltage system of a machine, stated on the machine itself  *)

\* the buttons that toggle bit position r
Toggling(mc, r) == { b \in 1..Len(mc.buttons) : BitSet(mc.buttons[b], r) }

RECURSIVE SumOver(_, _)
SumOver(a, S) ==
    IF S = {} THEN 0
    ELSE LET b == CHOOSE e \in S : TRUE IN a[b] + SumOver(a, S \ {b})

LargestJoltage(mc) ==
    CHOOSE v \in 0..MaxJoltage :
        /\ \E k \in 1..JoltageLen : mc.expected_joltage[k] = v
        /\ \A k \in 1..JoltageLen : mc.expected_joltage[k] <= v

\* Every non-negative integer solution: a press count per button with, for
\* each bit position, the counts of the buttons toggling it summing to its
\* target.  A button toggles some position, so none of its counts exceeds
\* the largest target, and the search space below holds every solution.
Solutions(mc) ==
    { a \in [1..Len(mc.buttons) -> 0..LargestJoltage(mc)] :
        \A r \in 0..(mc.bit_count - 1) :
            SumOver(a, Toggling(mc, r)) = mc.expected_joltage[r + 1] }

Total(a) == SumOver(a, DOMAIN a)

\* a bit position with a non-zero target that no button toggles
HasDeadRow(mc) ==
    \E r \in 0..(mc.bit_count - 1) :
        Toggling(mc, r) = {} /\ mc.expected_joltage[r + 1] # 0

IsNonNegativeInteger(f) ==
    /\ f.denominator > 0
    /\ f.numerator >= 0
    /\ f.numerator % f.denominator = 0

CallEnded == pc \in {"returned", "panic"}

(* C1: whenever find_min_clicks_to_setup_joltage returns v, some           *)
(* assignment of non-negative press counts sums to v and satisfies every   *)
(* row exactly.                                                            *)
C1_ReturnedValueIsASolution ==
    pc = "returned" =>
        \E a \in Solutions(machine) : Total(a) = outcome.value

(* C2: whenever find_min_clicks_to_setup_joltage returns v, v is the       *)
(* minimum of the totals of the non-negative integer solutions: it is      *)
(* attained and no solution has a smaller total.                           *)
C2_ReturnedValueIsMinimum ==
    pc = "returned" =>
        /\ { Total(a) : a \in Solutions(machine) } # {}
        /\ \A a \in Solutions(machine) : outcome.value <= Total(a)
        /\ outcome.value \in { Total(a) : a \in Solutions(machine) }

(* C3: for a machine in which a bit position with a non-zero target is     *)
(* toggled by no button, the call ends reporting the instance unsolvable:  *)
(* it returns no number and does not panic on an out-of-range index.       *)
C3_InfeasibleReportedUnsolvable ==
    (CallEnded /\ HasDeadRow(machine)) =>
        /\ outcome.kind = "panic"
        /\ outcome.message # "index out of bounds"

(* C4: on the unique-solution path (no free variable) a value is returned  *)
(* only if every pivot variable's value, the right-hand side of its row,   *)
(* is a non-negative integer.                                              *)
C4_UniquePathRejectsNegative ==
    (pc = "returned" /\ free_vars = <<>>) =>
        \A r \in 0..(x.rows - 1) :
            LeadingColumn(x, r) < x.cols =>
                IsNonNegativeInteger(Entry(x, r, x.cols - 1))

(* C5: when every candidate of the enumeration is rejected for a machine,  *)
(* the failure stays with that machine: part2 is not aborted and goes on   *)
(* with the remaining machines.                                            *)
C5_ExhaustedSearchKeepsBatch ==
    (outcome.kind = "panic" /\ outcome.message = "No solution found") =>
        /\ batch = "running"
        /\ pending > 0 => ENABLED Part2Next

----------------------------------------------------------------------------
(* Fraction claims, checked under SpecFrac *)

HasCommonFactor(f) ==
    \E k \in 2..f.denominator :
        f.numerator % k = 0 /\ f.denominator % k = 0

(* C8: for a fraction with non-zero denominator, simplify() keeps the      *)
(* rational value, gives a denominator > 0 and a numerator and denominator *)
(* without common factor (0/1 for a zero value), and simplifying the       *)
(* result again changes nothing.                                           *)
C8_SimplifyCanonical ==
    fop = "simplify" =>
        /\ SameValue(fres, fa)
        /\ fres.denominator > 0
        /\ ~HasCommonFactor(fres)
        /\ (fa.numerator = 0 => fres = Fraction(0, 1))
        /\ simplify(fres) = fres

\* a negative fraction that was reduced to a non-integer
C8_Witness ==
    /\ fop = "simplify"
    /\ fa.numerator < 0 /\ fres # fa /\ fres.denominator > 1

(* C9: two fractions with non-zero denominators compare equal exactly when *)
(* they denote the same rational number, whatever their representation:    *)
(* a == b iff a.numerator * b.denominator == b.numerator * a.denominator.  *)
C9_EqIsValueEquality ==
    fop = "eq" =>
        (feq <=> fa.numerator * fb.denominator = fb.numerator * fa.denominator)

\* 2/4 == 1/2: equal under different representations
C9_Witness ==
    /\ fop = "eq" /\ feq
    /\ fa = Fraction(2, 4) /\ fb = Fraction(1, 2)

(* C10: a -= b leaves a with the exact value (old a) - b over the          *)
(* denominator lcm(a.denominator, reduced denominator of b), and the       *)
(* result is not reduced (3/4 - 1/2 is 1/4, 2/3 - 7/8 is -5/24, and        *)
(* 3/4 - 1/4 stays 2/4).                                                   *)
C10_SubAssignOverLcm ==
    fop = "sub_assign" =>
        /\ fres.denominator =
             LeastCommonMultiple(fa.denominator, ReducedDenominator(fb))
        /\ fres.numerator * (fa.denominator * fb.denominator) =
             (fa.numerator * fb.denominator - fb.numerator * fa.denominator)
               * fres.denominator
        /\ (fa = Fraction(3, 4) /\ fb = Fraction(1, 2)) => fres = Fraction(1, 4)
        /\ (fa = Fraction(2, 3) /\ fb = Fraction(7, 8)) => fres = Fraction(-5, 24)

\* 3/4 - 1/4 is stored as 2/4
C10_Witness ==
    /\ fop = "sub_assign"
    /\ fa = Fraction(3, 4) /\ fb = Fraction(1, 4)
    /\ fres = Fraction(2, 4) /\ HasCommonFactor(fres)

----------------------------------------------------------------------------
(* Fraction arithmetic, checked under SpecMul and SpecFrac *)

\* the product of fa and fb in lowest terms, by the largest common factor
ExactProduct ==
    LET n == fa.numerator * fb.numerator
        d == fa.denominator * fb.denominator
        an == IF n < 0 THEN -n ELSE n
        g == CHOOSE k \in 1..d :
               /\ an % k = 0 /\ d % k = 0
               /\ \A l \in (k + 1)..d : ~(an % l = 0 /\ d % l = 0)
    IN  [numerator |-> (IF n < 0 THEN -1 ELSE 1) * (an \div g),
         denominator |-> d \div g]

FitsFields(f) ==
    /\ f.numerator >= FieldMin /\ f.numerator <= FieldMax
    /\ f.denominator >= 0 /\ f.denominator <= UFieldMax

(* C11: for operands that fit the fields, a * b is the exact product in    *)
(* lowest terms (0/1 when a numerator is 0) whenever that fraction fits    *)
(* the fields, and the operation fails, returning nothing, whenever it     *)
(* does not.                                                               *)
C11_MulExactOrFails ==
    fop = "mul" =>
        IF FitsFields(ExactProduct)
        THEN ffail = "none" /\ fres = ExactProduct
        ELSE ffail # "none"

(* C12: for b with a non-zero numerator, a /= b leaves a with the rational *)
(* value (old a) / b and a positive denominator: the numerator is          *)
(* multiplied by b's denominator and the sign of b's numerator, the        *)
(* denominator by the absolute value of b's numerator; (-1/4) /= (-4/8)    *)
(* simplifies to 1/2.                                                      *)
C12_DivAssignExact ==
    fop = "div_assign" =>
        /\ fres.denominator > 0
        /\ fres.numerator * fa.denominator * fb.numerator
             = fa.numerator * fb.denominator * fres.denominator
        /\ fres.numerator
             = fa.numerator * fb.denominator
                 * (IF fb.numerator > 0 THEN 1 ELSE -1)
        /\ fres.denominator
             = fa.denominator
                 * (IF fb.numerator > 0 THEN fb.numerator ELSE -fb.numerator)
        /\ (fa = [numerator |-> -1, denominator |-> 4]
              /\ fb = [numerator |-> -4, denominator |-> 8])
             => simplify(fres) = [numerator |-> 1, denominator |-> 2]

\* the division of test_fraction_ops1
C12_Witness ==
    /\ fop = "div_assign"
    /\ fa = [numerator |-> -1, denominator |-> 4]
    /\ fb = [numerator |-> -4, denominator |-> 8]
    /\ fres = [numerator |-> 8, denominator |-> 16]

(* C13: for a and b with non-zero numerators and denominators, c = a * b   *)
(* followed by c /= a leaves c == b.                                       *)
C13_MulDivRoundTrip ==
    fop = "mul_div" => feq /\ SameValue(fres, fb)

\* a negative a and a proper fraction b, c stored in another form than b
C13_Witness ==
    /\ fop = "mul_div"
    /\ fa.numerator < 0 /\ fa.denominator > 1
    /\ fb.denominator > 1 /\ fb.numerator % fb.denominator # 0
    /\ fres # fb /\ feq

\* the integer a fraction denotes, if it denotes one
IsIntegerValue(f) == f.numerator % f.denominator = 0

(* C14 as stated: intify returns Ok(n) exactly when the simplified         *)
(* denominator of the fraction is 1, n being its integer value, and the    *)
(* fraction as the error otherwise; 4/2 is extracted as 2.                 *)
C14_IntifyIffIntegerValue ==
    fop = "intify" =>
        /\ fint.ok <=> ReducedDenominator(fa) = 1
        /\ fint.ok => fint.value * fa.denominator = fa.numerator
        /\ fa = [numerator |-> 4, denominator |-> 2]
             => (fint.ok /\ fint.value = 2)

(* C14 as amended: intify applied to the simplified fraction, the form     *)
(* x.simplify().intify() of both call sites, returns Ok(n) exactly when    *)
(* the value is an integer, n being that integer, and the simplified       *)
(* fraction as the error otherwise, so 4/2 is extracted as 2; intify       *)
(* applied to the fraction as stored returns Ok(numerator) exactly when    *)
(* the stored denominator is 1.                                            *)
C14_IntifyAfterSimplify ==
    /\ fop = "simplify_intify" =>
         /\ fint.ok <=> IsIntegerValue(fa)
         /\ fint.ok <=> ReducedDenominator(fa) = 1
         /\ fint.ok => fint.value * fa.denominator = fa.numerator
         /\ ~fint.ok => fint.value = fres /\ SameValue(fres, fa)
         /\ fa = [numerator |-> 4, denominator |-> 2]
              => (fint.ok /\ fint.value = 2)
    /\ fop = "intify" =>
         /\ fint.ok <=> fa.denominator = 1
         /\ fint.ok => fint.value = fa.numerator
         /\ ~fint.ok => fint.value = fa

C14_Witness ==
    /\ fop = "simplify_intify"
    /\ fa = [numerator |-> 4, denominator |-> 2]
    /\ fint = [ok |-> TRUE, value |-> 2]

----------------------------------------------------------------------------
(* The example, checked under SpecExample *)

(* C15: on the three machines of the example part1 returns 7 and part2     *)
(* returns 33, neither panics, and the first line is parsed as a machine   *)
(* of bit_count 4 with 6 buttons and the joltage vector [7, 4, 5, 3].      *)
C15_ExampleTotals ==
    /\ p1pc # "panic" /\ p1batch # "panicked"
    /\ pc # "panic" /\ batch # "panicked"
    /\ p1batch = "returned" => p1total = 7
    /\ batch = "returned" => total = 33
    /\ input # <<>> =>
         /\ Len(input) = 3
         /\ input[1].bit_count = 4
         /\ Len(input[1].buttons) = 6
         /\ \A k \in 1..JoltageLen :
              input[1].expected_joltage[k]
                = (IF k = 1 THEN 7 ELSE IF k = 2 THEN 4 ELSE IF k = 3 THEN 5
                   ELSE IF k = 4 THEN 3 ELSE 0)

\* both parts have returned their sums
C15_Witness ==
    /\ Len(input) = 3
    /\ p1batch = "returned" /\ p1pending = 0 /\ p1total = 7
    /\ batch = "returned" /\ pending = 0 /\ total = 33

----------------------------------------------------------------------------
(* Part 1, checked under SpecPart1 *)

\* the positions set in a pattern, and the pattern with exactly the
\* positions of a set
PositionsOf(p) == { i \in 0..15 : (p \div Pow2(i)) % 2 = 1 }

RECURSIVE PatternOf(_)
PatternOf(S) ==
    IF S = {} THEN 0
    ELSE LET i == CHOOSE j \in S : TRUE IN Pow2(i) + PatternOf(S \ {i})

\* pressing a button toggles the positions it is wired to
Toggled(p, button) ==
    PatternOf((PositionsOf(p) \ PositionsOf(button))
                \cup (PositionsOf(button) \ PositionsOf(p)))

\* the patterns some sequence of exactly k presses leaves, from all-off
RECURSIVE AfterPresses(_, _)
AfterPresses(mc, k) ==
    IF k = 0 THEN {0}
    ELSE { Toggled(p, mc.buttons[b]) :
             p \in AfterPresses(mc, k - 1), b \in 1..Len(mc.buttons) }

\* a pattern that can be reached is reached by pressing each button at most
\* once, XOR being its own inverse
SwitchReachable(mc) ==
    \E k \in 0..Len(mc.buttons) :
        mc.expected_state \in AfterPresses(mc, k)

(* C16: when the expected pattern can be reached the search does not fail, *)
(* and the number it returns is the length of a shortest sequence of       *)
(* presses that turns all-off into the expected pattern: some sequence of  *)
(* that length reaches it, no shorter one does, and it is 0 when the       *)
(* expected pattern is all-off.                                            *)
C16_ShortestPressSequence ==
    /\ p1pc = "panic" => ~SwitchReachable(p1machine)
    /\ p1pc = "returned" =>
         /\ p1outcome.kind = "ok"
         /\ p1machine.expected_state \in AfterPresses(p1machine, p1outcome.value)
         /\ \A k \in 0..(p1outcome.value - 1) :
              p1machine.expected_state \notin AfterPresses(p1machine, k)
         /\ p1machine.expected_state = 0 => p1outcome.value = 0

\* a pattern that takes three presses, found after patterns were queued
C16_Witness ==
    /\ p1pc = "returned"
    /\ p1outcome.value = 3
    /\ Len(p1machine.buttons) = 3
    /\ Cardinality(visited) > 3

----------------------------------------------------------------------------
(* The free-variable search, checked under Spec *)

\* exact arithmetic on values n/d by cross-multiplication
ValueMinus(f, g) ==
    [numerator |-> f.numerator * g.denominator - g.numerator * f.denominator,
     denominator |-> f.denominator * g.denominator]

ValueTimes(f, k) ==
    [numerator |-> f.numerator * k, denominator |-> f.denominator]

\* the right-hand side of row r minus entry * value over the button columns
\* 0..j other than p
RECURSIVE RowRemainder(_, _, _, _, _)
RowRemainder(m, sol, r, p, j) ==
    IF j < 0 THEN Entry(m, r, m.cols - 1)
    ELSE LET rest == RowRemainder(m, sol, r, p, j - 1)
         IN  IF j = p THEN rest
             ELSE ValueMinus(rest, ValueTimes(Entry(m, r, j), sol[j + 1]))

\* the rows from r on: each row with a leading column must give a
\* non-negative integer, which becomes the value of that column
RECURSIVE CandidateRows(_, _, _)
CandidateRows(m, sol, r) ==
    IF r >= m.rows THEN [valid |-> TRUE, solution |-> sol]
    ELSE LET p == LeadingColumn(m, r) IN
         IF p = m.cols THEN CandidateRows(m, sol, r + 1)
         ELSE LET v == RowRemainder(m, sol, r, p, m.cols - 2) IN
              IF ~IsNonNegativeInteger(v)
              THEN [valid |-> FALSE, solution |-> sol]
              ELSE CandidateRows(
                       m,
                       IF p < m.cols - 1
                       THEN [sol EXCEPT ![p + 1] = v.numerator \div v.denominator]
                       ELSE sol,
                       r + 1)

\* the candidate last tried: its free variables as assigned, the rest 0
LastCandidate ==
    [k \in 1..(x.cols - 1) |->
       IF \E i \in 1..Len(free_vars) : free_vars[i] = k - 1
       THEN solution[k] ELSE 0]

CandidateTried ==
    /\ pc \in {"search", "returned", "panic"}
    /\ free_vars # <<>>
    /\ solution # <<>>

(* C17: a candidate of the search is counted as valid exactly when every   *)
(* row with a pivot column gives a non-negative integer for RHS minus the  *)
(* sum of entry * solution value over the other button columns, the rows   *)
(* taken in order and the first failing row ending the candidate; a valid  *)
(* candidate is reflected in the best sum.                                 *)
C17_CandidateValidIff ==
    CandidateTried =>
        LET c == CandidateRows(x, LastCandidate, 0)
        IN  /\ valid <=> c.valid
            /\ solution = c.solution
            /\ valid => (best_solution.some /\ best_sum <= Total(solution))

----------------------------------------------------------------------------
(* The solution set under reduction, checked under SpecRref *)

\* the vectors tried: one coordinate per unknown, each a multiple of 1/2
\* between -MaxCoord/2 and MaxCoord/2
MaxCoord == 4

HalfVectors(n) == [1..n -> (-MaxCoord)..MaxCoord]

ValuePlus(f, g) ==
    [numerator |-> f.numerator * g.denominator + g.numerator * f.denominator,
     denominator |-> f.denominator * g.denominator]

ValueProduct(f, g) ==
    [numerator |-> f.numerator * g.numerator,
     denominator |-> f.denominator * g.denominator]

\* entry * value summed over the columns 0..j of row r, for the values v
RECURSIVE RowSum(_, _, _, _)
RowSum(m, v, r, j) ==
    IF j < 0 THEN [numerator |-> 0, denominator |-> 1]
    ELSE ValuePlus(RowSum(m, v, r, j - 1), ValueProduct(Entry(m, r, j), v[j + 1]))

\* A v = b for the augmented matrix m = [A | b]
Satisfies(m, v) ==
    \A r \in 0..(m.rows - 1) :
        SameValue(RowSum(m, v, r, m.cols - 2), Entry(m, r, m.cols - 1))

HalfValues(h) == [k \in DOMAIN h |-> [numerator |-> h[k], denominator |-> 2]]

\* every unknown leads exactly one row and the last column leads none: the
\* system has one solution, the last column of the reduced matrix
Determined(m) ==
    /\ \A c \in 0..(m.cols - 2) :
         Cardinality({ r \in 0..(m.rows - 1) : LeadingColumn(m, r) = c }) = 1
    /\ \A r \in 0..(m.rows - 1) : LeadingColumn(m, r) # m.cols - 1

ReadOff(m) ==
    [k \in 1..(m.cols - 1) |->
       Entry(m, CHOOSE r \in 0..(m.rows - 1) : LeadingColumn(m, r) = k - 1,
             m.cols - 1)]

(* C18: reduction keeps the solution set of the augmented system: after    *)
(* every iteration a vector satisfies the matrix as given exactly when it  *)
(* satisfies the matrix as it stands, and the solution read off a reduced  *)
(* matrix that determines one satisfies the matrix as given.               *)
C18_RrefKeepsSolutions ==
    mat0.cols >= 1 =>
        /\ mat.rows = mat0.rows /\ mat.cols = mat0.cols
        /\ \A h \in HalfVectors(mat0.cols - 1) :
             Satisfies(mat0, HalfValues(h)) <=> Satisfies(mat, HalfValues(h))
        /\ (rpc = "done" /\ Determined(mat)) => Satisfies(mat0, ReadOff(mat))

\* two equations in two unknowns, reduced to another matrix, whose one
\* solution is not integral
C18_Witness ==
    /\ rpc = "done"
    /\ mat0.rows = 2 /\ mat0.cols = 3
    /\ mat # mat0
    /\ Determined(mat)
    /\ \E k \in 1..2 : ~IsIntegerValue(ReadOff(mat)[k])
    /\ \A r \in 0..1 : \A c \in 0..1 : ~IsZeroValue(Entry(mat0, r, c))

----------------------------------------------------------------------------
(* The free variables, checked under Spec *)

\* free_vars has been computed from the reduced matrix
FreeVarsComputed == pc \in {"search", "returned", "panic"}

LedRows(m, c) == { r \in 0..(m.rows - 1) : LeadingColumn(m, r) = c }

(* C19: the free variables are exactly the button columns (the last column *)
(* excluded) that are the first non-zero column of no row of the reduced   *)
(* matrix, each listed once; every other button column is the first        *)
(* non-zero column of exactly one row.                                     *)
C19_FreeVarsAreNonPivot ==
    FreeVarsComputed =>
        /\ { free_vars[i] : i \in 1..Len(free_vars) }
             = { c \in 0..(x.cols - 2) : LedRows(x, c) = {} }
        /\ \A i \in 1..Len(free_vars) : \A j \in 1..Len(free_vars) :
             i < j => free_vars[i] < free_vars[j]
        /\ \A c \in 0..(x.cols - 2) :
             (\A i \in 1..Len(free_vars) : free_vars[i] # c)
                => Cardinality(LedRows(x, c)) = 1

\* three buttons of which the middle one is free and the others are pivots
C19_Witness ==
    /\ pc = "search"
    /\ x.cols = 4
    /\ free_vars = <<1>>
    /\ LedRows(x, 0) # {} /\ LedRows(x, 2) # {}

----------------------------------------------------------------------------
(* The iterator, checked under SpecCartesian *)

\* the place of a tuple in odometer order, from 0: its coordinates read as
\* the digits of a number in base max + 1, the last coordinate least
RECURSIVE OdometerRank(_, _, _)
OdometerRank(t, j, base) ==
    IF j = 0 THEN 0 ELSE OdometerRank(t, j - 1, base) * base + t[j]

RECURSIVE Power(_, _)
Power(b, e) == IF e = 0 THEN 1 ELSE b * Power(b, e - 1)

TupleCount == Power(cit.max + 1, Len(cit.current))

(* C20: the iterator yields the tuples of [0..max]^k in odometer order     *)
(* from the all-zero tuple, each once: the i-th item yielded is the tuple  *)
(* of rank i - 1; it yields (max + 1)^k items in all, the last the all-max *)
(* tuple, is done exactly then, and every call after that returns None     *)
(* and yields nothing more; for k = 0 the one item is the empty tuple.     *)
C20_OdometerOrder ==
    /\ \A i \in 1..Len(yielded) :
         /\ DOMAIN yielded[i] = 1..Len(cit.current)
         /\ \A j \in 1..Len(cit.current) :
              yielded[i][j] >= 0 /\ yielded[i][j] <= cit.max
         /\ OdometerRank(yielded[i], Len(cit.current), cit.max + 1) = i - 1
    /\ Len(yielded) <= TupleCount
    /\ cit.done <=> Len(yielded) = TupleCount
    /\ nones > 0 => Len(yielded) = TupleCount
    /\ cit.done =>
         \A j \in 1..Len(cit.current) : yielded[Len(yielded)][j] = cit.max
    /\ (cit.done /\ Len(cit.current) = 0) => yielded = << <<>> >>

\* all 27 tuples of [0..2]^3 yielded, then None twice
C20_Witness ==
    /\ cit.max = 2 /\ Len(cit.current) = 3
    /\ cit.done
    /\ Len(yielded) = 27
    /\ yielded[2] = <<0, 0, 1>> /\ yielded[4] = <<0, 1, 0>>
    /\ nones = 2

----------------------------------------------------------------------------
(* The retained best candidate, checked under Spec *)

\* the tuples the enumeration has been through: those before the iterator's
\* current tuple in odometer order, or all of them once it is done
Processed ==
    LET k == Len(free_vars)
        all == [1..k -> 0..iter.max]
    IN  IF iter.done THEN all
        ELSE { t \in all : OdometerRank(t, k, iter.max + 1)
                             < OdometerRank(iter.current, k, iter.max + 1) }

\* the candidate of tuple t, evaluated exactly
CandidateOf(t) ==
    CandidateRows(x,
                  [k \in 1..(x.cols - 1) |->
                     IF \E i \in 1..Len(free_vars) : free_vars[i] = k - 1
                     THEN t[CHOOSE i \in 1..Len(free_vars) : free_vars[i] = k - 1]
                     ELSE 0],
                  0)

ValidProcessed == { t \in Processed : CandidateOf(t).valid }

(* C21: during the enumeration, after any prefix of candidates, best_sum   *)
(* is the least total among the valid candidates of the prefix (i32::MAX   *)
(* and no retained solution if there is none) and best_solution is the     *)
(* first candidate in enumeration order with that total, so a later        *)
(* candidate of equal total does not replace it.                           *)
C21_BestIsFirstMinimum ==
    pc = "search" =>
        LET k == Len(free_vars)
            V == ValidProcessed
        IN  IF V = {}
            THEN best_sum = I32Max /\ ~best_solution.some
            ELSE LET first ==
                       CHOOSE t \in V :
                         \A u \in V :
                           \/ Total(CandidateOf(t).solution)
                                < Total(CandidateOf(u).solution)
                           \/ /\ Total(CandidateOf(t).solution)
                                   = Total(CandidateOf(u).solution)
                              /\ OdometerRank(t, k, iter.max + 1)
                                   <= OdometerRank(u, k, iter.max + 1)
                 IN  /\ best_sum = Total(CandidateOf(first).solution)
                     /\ best_solution.some
                     /\ best_solution.value = CandidateOf(first).solution

\* x0 + x1 = 2 with x1 free: the three candidates [2,0], [1,1], [0,2] all
\* total 2 and the first is the one retained after all three
C21_Witness ==
    /\ pc = "search"
    /\ iter.done
    /\ machine.bit_count = 1 /\ machine.buttons = <<1, 1>>
    /\ Cardinality(ValidProcessed) = 3
    /\ best_sum = 2
    /\ best_solution.some /\ best_solution.value = <<2, 0>>

----------------------------------------------------------------------------
(* The range of the free variables, checked under Spec *)

\* press counts from 0 to one more than any target of the model's machines:
\* wider than the range the search gives a free variable
WideCounts(mc) == [1..Len(mc.buttons) -> 0..(MaxJoltage + 1)]

\* every non-negative integer solution with counts in the wide range
WideSolutions(mc) ==
    { a \in WideCounts(mc) :
        \A r \in 0..(mc.bit_count - 1) :
            SumOver(a, Toggling(mc, r)) = mc.expected_joltage[r + 1] }

(* C22: the range 0..max_rhs the search gives each free variable is        *)
(* 0..(largest target of the machine), and no non-negative integer         *)
(* solution of a machine whose every button toggles a position has a press *)
(* count above it, so the range leaves out no solution.                    *)
C22_MaxRhsBoundsCounts ==
    (pc = "search" /\ \A b \in 1..Len(machine.buttons) :
                        \E r \in 0..(machine.bit_count - 1) :
                            b \in Toggling(machine, r)) =>
        /\ iter.max = LargestJoltage(machine)
        /\ \A a \in WideSolutions(machine) :
             \A b \in 1..Len(machine.buttons) : a[b] <= iter.max

\* a machine with largest target 1 whose solutions include one with a count
\* at the bound, while larger counts were tried and solve nothing
C22_Witness ==
    /\ pc = "search"
    /\ iter.max = 1
    /\ Len(machine.buttons) = 3
    /\ \E a \in WideSolutions(machine) : \E b \in 1..3 : a[b] = iter.max
    /\ Cardinality(WideSolutions(machine)) >= 2

----------------------------------------------------------------------------
(* The denominators met while a machine is solved, checked under Spec *)

NonZeroDenominators(m) ==
    \A k \in 1..Len(m.data) :
        m.data[k].denominator # 0 /\ simplify(m.data[k]).denominator # 0

\* the matrices the elimination loop of one iteration goes through
RECURSIVE ElimMatrices(_, _, _, _)
ElimMatrices(m, r, ld, j) ==
    IF j >= m.rows THEN {m}
    ELSE IF j # r
    THEN {m} \cup ElimMatrices(subtract_from_row(m, j, r, get(m, j, ld)),
                               r, ld, j + 1)
    ELSE ElimMatrices(m, r, ld, j + 1)

\* the matrices reduced_row_echelon_form goes through from (m, ld, r): after
\* the swap, after the division and after each row subtraction
RECURSIVE RrefMatrices(_, _, _)
RrefMatrices(m, ld, r) ==
    LET n == RrefIteration(m, ld, r)
    IN  IF n.pc # "loop" THEN {m, n.m}
        ELSE LET s == PivotSearch(m, r, r, ld)
                 m1 == IF s.i # m.rows THEN swap_row(m, s.i, r) ELSE m
                 d == divide_row(m1, r, get(m1, r, s.lead))
             IN  {m, m1, d} \cup ElimMatrices(d, r, s.lead, 0)
                   \cup RrefMatrices(n.m, n.lead, n.row)

\* the pivots reduced_row_echelon_form divides by from (m, ld, r)
RECURSIVE RrefPivots(_, _, _)
RrefPivots(m, ld, r) ==
    LET n == RrefIteration(m, ld, r)
        s == PivotSearch(m, r, r, ld)
        m1 == IF s.i # m.rows THEN swap_row(m, s.i, r) ELSE m
    IN  IF n.pc = "loop"
        THEN {get(m1, r, s.lead)} \cup RrefPivots(n.m, n.lead, n.row)
        ELSE IF n.fail = "zero pivot" THEN {get(m1, r, s.lead)}
        ELSE {}

\* the values `val` takes in lines 528-534 for row r and pivot column col,
\* from column j on, with the products subtracted from it
RECURSIVE RowWorkingValues(_, _, _, _, _, _)
RowWorkingValues(m, sol, r, col, j, val) ==
    IF j >= m.cols - 1 THEN {val, simplify(val)}
    ELSE IF j # col
    THEN LET p == mul(get(m, r, j), FractionFromInt(sol[j + 1]))
         IN  {val, p} \cup RowWorkingValues(m, sol, r, col, j + 1,
                                            sub_assign(val, p))
    ELSE RowWorkingValues(m, sol, r, col, j + 1, val)

\* the working values of one candidate, the rows taken as the closure of
\* lines 526-546 takes them
RECURSIVE CandidateWorkingValues(_, _, _)
CandidateWorkingValues(m, sol, r) ==
    IF r >= m.rows THEN {}
    ELSE LET p == find_pivot_column(m, r) IN
         IF ~p.some THEN CandidateWorkingValues(m, sol, r + 1)
         ELSE LET w == RowWorkingValues(m, sol, r, p.col, 0,
                                        get(m, r, m.cols - 1))
                  val == simplify(RowValue(m, sol, r, p.col, 0,
                                           get(m, r, m.cols - 1)))
                  v == intify(simplify(val))
              IN  IF val.numerator < 0 \/ ~v.ok \/ p.col >= Len(sol)
                  THEN w
                  ELSE w \cup CandidateWorkingValues(
                                 m, [sol EXCEPT ![p.col + 1] = v.value], r + 1)

(* C23: while a machine is solved every fraction stored in the matrix --   *)
(* as built, after the swap, the division and each row subtraction of      *)
(* every iteration of the reduction, and as reduced -- and every working   *)
(* value of the back-substitution of a candidate has a non-zero            *)
(* denominator, and every pivot divide_row is called with is non-zero.     *)
C23_DenominatorsNonZero ==
    /\ NonZeroDenominators(x)
    /\ outcome.message # "zero pivot"
    /\ pc = "built" =>
         /\ \A m \in RrefMatrices(x, 0, 0) : NonZeroDenominators(m)
         /\ \A p \in RrefPivots(x, 0, 0) :
              p.numerator # 0 /\ p.denominator # 0
    /\ (pc = "search" /\ ~iter.done) =>
         \A f \in CandidateWorkingValues(
                      x, AssignFree(x, free_vars, iter.current), 0) :
             f.denominator # 0

\* a reduction that divided a row by a pivot of value 2 or -2, which leaves
\* the stored forms 0/2 and 1/2 in the matrix
C23_Witness ==
    /\ pc = "reduced"
    /\ x.rows = 3 /\ x.cols = 4
    /\ \E k \in 1..Len(x.data) :
         x.data[k].numerator = 0 /\ x.data[k].denominator = 2
    /\ \E k \in 1..Len(x.data) :
         x.data[k].numerator # 0 /\ x.data[k].denominator = 2

----------------------------------------------------------------------------
(* The shape of the matrix and its accesses, checked under Spec *)

InShape(m, S) ==
    \A a \in S : a[1] >= 0 /\ a[1] < m.rows /\ a[2] >= 0 /\ a[2] < m.cols

(* C24: from Matrix::new on, through the sets of the construction and the  *)
(* swaps, divisions and subtractions of the reduction, the backing store   *)
(* holds rows * cols entries and rows and cols stay what new was given;    *)
(* every get and set of the reduction and of the solver has row < rows and *)
(* col < cols.                                                             *)
C24_ShapeAndAccesses ==
    /\ Len(x.data) = x.rows * x.cols
    /\ pc # "idle" =>
         /\ x.rows = machine.bit_count
         /\ x.cols = Len(machine.buttons) + 1
         /\ InShape(x, SolverAccesses(machine, x))
    /\ pc = "built" =>
         /\ InShape(x, RrefAccesses(x, 0, 0))
         /\ \A m \in RrefMatrices(x, 0, 0) :
              /\ m.rows = x.rows /\ m.cols = x.cols
              /\ Len(m.data) = m.rows * m.cols

\* a 3 x 4 matrix whose reduction swapped rows and changed entries: rows 0
\* and 1 of the reduced matrix begin 1 0 and 0 1, the built matrix had 0 in
\* its first place
C24_Witness ==
    /\ pc = "reduced"
    /\ x.rows = 3 /\ x.cols = 4 /\ Len(x.data) = 12
    /\ IsZeroValue(get(BuildMatrix(machine), 0, 0))
    /\ IsOneValue(get(x, 0, 0)) /\ IsOneValue(get(x, 1, 1))
    /\ x # BuildMatrix(machine)

----------------------------------------------------------------------------
(* The parser's bit and row order, checked under SpecParse *)

Lists(wired, k) == \E i \in 1..Len(wired) : wired[i] = k

----------------------------------------------------------------------------
(* The breadth-first search's queue, checked under SpecPart1Live *)

\* every entry pushed in the call in progress: those popped, then the queue
Enqueued == popped \o queue

QueueDiscipline ==
    p1pc # "idle" =>
        /\ \A i \in 1..Len(Enqueued) : \A j \in 1..Len(Enqueued) :
             i # j => Enqueued[i].state # Enqueued[j].state
        /\ visited = { Enqueued[i].state : i \in 1..Len(Enqueued) }
        /\ \A i \in 1..Len(Enqueued) : \A j \in 1..Len(Enqueued) :
             i < j => Enqueued[i].clicks <= Enqueued[j].clicks
        /\ Len(popped) <= Pow2(p1machine.bit_count)
        /\ p1pc = "returned" =>
             p1outcome.kind = "ok" /\ SwitchReachable(p1machine)
        /\ p1pc = "panic" =>
             /\ p1outcome.message = "No solution found"
             /\ queue = <<>>
             /\ ~SwitchReachable(p1machine)

(* C26: in find_min_clicks_to_switch_on every pattern is enqueued at most  *)
(* once and is marked visited when enqueued, entries leave the queue in    *)
(* non-decreasing click count, at most 2^bit_count entries are dequeued,   *)
(* and a search that has started ends: it returns a count when the         *)
(* expected pattern can be reached, and otherwise the queue empties and it *)
(* ends in the "No solution found" panic.                                  *)
C26_SearchTerminates ==
    /\ []QueueDiscipline
    /\ (p1pc = "loop") ~> (p1pc \in {"returned", "panic"})

\* three positions, buttons that reach four of the eight patterns and an
\* expected pattern outside them: four entries dequeued, then the panic
C26_Witness ==
    /\ p1pc = "panic"
    /\ p1machine.bit_count = 3
    /\ Len(popped) = 4
    /\ popped[1].clicks = 0 /\ popped[4].clicks = 2
    /\ queue = <<>>

----------------------------------------------------------------------------
(* day8 part2, checked under SpecDay8 *)

\* the index pairs of the points ps, and the distance of one
IndexPairs(ps) == { e \in (1..Len(ps)) \X (1..Len(ps)) : e[1] < e[2] }
PairDistance(ps, e) == squared_distance(ps[e[1]], ps[e[2]])

\* the points joined to the points S by the pairs E
RECURSIVE JoinedTo(_, _)
JoinedTo(S, E) ==
    LET more == S \cup { e[1] : e \in { f \in E : f[2] \in S } }
                  \cup { e[2] : e \in { f \in E : f[1] \in S } }
    IN  IF more = S THEN S ELSE JoinedTo(more, E)

AllJoined(ps, E) == JoinedTo({1}, E) = 1..Len(ps)

\* the first pair, by increasing distance, with which the pairs taken so far
\* join all the points
ConnectingPair(ps) ==
    CHOOSE e \in IndexPairs(ps) :
        LET upto == { f \in IndexPairs(ps) :
                        PairDistance(ps, f) <= PairDistance(ps, e) }
        IN  AllJoined(ps, upto) /\ ~AllJoined(ps, upto \ {e})

(* C27: part2 returns the product of the x-coordinates of the two          *)
(* endpoints of the first pair, by increasing squared distance, whose      *)
(* union puts all n points in one set (n >= 2, the squared distances       *)
(* pairwise distinct).                                                     *)
C27_ProductOfConnectingPair ==
    d8pc = "returned" =>
        LET e == ConnectingPair(nodes)
        IN  result = nodes[e[1]].x * nodes[e[2]].x

----------------------------------------------------------------------------
(* The dial, checked under SpecDial *)

\* what the dial shows k single clicks after showing p
Shown(p, dir, k) ==
    IF dir = "Left" THEN (((p - k) % CAP) + CAP) % CAP ELSE (p + k) % CAP

\* the number of the first a single clicks after which the dial shows 0
ZeroSteps(p, dir, a) ==
    Cardinality({ k \in 1..a : Shown(p, dir, k) = 0 })

(* C28: for every position and every rotation, rotate_counting_zeroes      *)
(* returns the position rotate returns, which is the position shown after  *)
(* `amount` single clicks and lies in 0..99, and its count is the number   *)
(* of those single clicks after which the dial shows 0; from 50 a rotation *)
(* of 1000 either way gives position 50 and count 10.                      *)
C28_CountsZeroSteps ==
    rotation # NoRotation =>
        /\ dial = rotated
        /\ dial \in 0..(CAP - 1)
        /\ dial = Shown(before, rotation.dir, rotation.amount)
        /\ zeroes = ZeroSteps(before, rotation.dir, rotation.amount)
        /\ (before = 50 /\ rotation.amount = 1000) =>
             (dial = 50 /\ zeroes = 10)

\* a rotation to the left by more than a turn that starts at 0
C28_Witness ==
    /\ before = 0
    /\ rotation = [dir |-> "Left", amount |-> 200]
    /\ dial = 0
    /\ zeroes = 2

----------------------------------------------------------------------------
(* PairsIterator, checked under SpecPairs *)

\* the k-th of the index pairs (i, j), i < j < n, in lexicographic order
PairAt(n, k) ==
    LET all == { e \in (0..(n - 1)) \X (0..(n - 1)) : e[1] < e[2] }
        Before(e) == { f \in all : f[1] < e[1] \/ (f[1] = e[1] /\ f[2] < e[2]) }
    IN  CHOOSE e \in all : Cardinality(Before(e)) = k - 1

(* C29: the k-th call of next() on a PairsIterator over n items yields the *)
(* k-th pair (slice[i], slice[j]), i < j, in lexicographic order of (i, j),*)
(* n(n-1)/2 pairs in all; None is returned only after all of them and on   *)
(* every call after that; for n <= 1 nothing is yielded.                   *)
C29_PairsInLexOrder ==
    LET n == Len(pit.slice)
        count == (n * (n - 1)) \div 2
    IN  /\ Len(yielded) <= count
        /\ \A k \in 1..Len(yielded) :
             LET e == PairAt(n, k)
             IN  yielded[k] = <<pit.slice[e[1] + 1], pit.slice[e[2] + 1]>>
        /\ nones > 0 => Len(yielded) = count
        /\ n <= 1 => yielded = <<>>

\* four distinct items: six pairs, then None twice
C29_Witness ==
    /\ pit.slice = <<0, 1, 2, 3>>
    /\ Len(yielded) = 6
    /\ yielded[4] = <<1, 2>>
    /\ nones = 2

----------------------------------------------------------------------------
(* LinesIterator, checked under SpecLines *)

\* the lines joined with a newline between each two
RECURSIVE JoinLines(_)
JoinLines(ls) ==
    IF ls = <<>> THEN <<>>
    ELSE IF Len(ls) = 1 THEN ls[1]
    ELSE ls[1] \o <<"\n">> \o JoinLines(Tail(ls))

IsPrefix(s, t) == Len(s) <= Len(t) /\ s = SubSeq(t, 1, Len(s))

(* C30: the lines a LinesIterator yields hold no newline and, joined with  *)
(* newlines, are a prefix of the input; once None is returned nothing more *)
(* is yielded, and then there is one line for each newline of the input    *)
(* and one more for bytes after the last newline (none for an empty input, *)
(* no extra empty line for a trailing newline, an empty line for two       *)
(* newlines in a row), and the joined lines are the input up to one        *)
(* trailing newline.                                                       *)
C30_LinesBetweenNewlines ==
    LET bytes == lit.slice
        newlines == Cardinality({ k \in 1..Len(bytes) : bytes[k] = "\n" })
        open == bytes # <<>> /\ bytes[Len(bytes)] # "\n"
    IN  /\ \A k \in 1..Len(yielded) :
             \A m \in 1..Len(yielded[k]) : yielded[k][m] # "\n"
        /\ IsPrefix(JoinLines(yielded), bytes)
        /\ Len(yielded) <= newlines + 1
        /\ nones > 0 =>
             /\ Len(yielded) = newlines + (IF open THEN 1 ELSE 0)
             /\ \/ JoinLines(yielded) = bytes
                \/ JoinLines(yielded) \o <<"\n">> = bytes
        /\ bytes = <<>> => yielded = <<>>

\* an empty line between two newlines, an unterminated last line
C30_Witness ==
    /\ lit.slice = <<"a", "\n", "\n", "b">>
    /\ yielded = << <<"a">>, <<>>, <<"b">> >>
    /\ nones = 2

============================================================================
